---- MODULE Spec2Model ----
(***************************************************************************)
(* Agent routing and conversational state of the Akash Gurukul backend:    *)
(* the transition rules and routing of agents/agent_chaining.py, the       *)
(* respond() path of agents/base_agent.py, and the chat / chain-suggestion *)
(* endpoints of backend/main.py.                                           *)
(*                                                                         *)
(* Texts are sequences of one-character strings, so that lower(), strip(), *)
(* startswith() and the substring test `kw in text` are computed.  The     *)
(* fixed literals of the source that are only concatenated, compared and   *)
(* measured (the fallback replies) are single symbols with a length table. *)
(* Confidences are integers in units of 1/Scale.  Timestamps are not       *)
(* modelled: no decision reads them.                                       *)
(***************************************************************************)
EXTENDS Integers, Sequences, FiniteSets, TLC

VARIABLES active_chains, active_agents, lesson_flow_managers, requests, curriculum_ingestion, lastCall

vars == <<active_chains, active_agents, lesson_flow_managers, requests, curriculum_ingestion, lastCall>>

(***************************************************************************)
(* Bounds of the model                                                     *)
(***************************************************************************)
\* turns recorded through record_agent_interaction in one behaviour of SpecPolicy
MaxRecorded == 3
\* largest number of insights of one persona in a context handed to a rule
MaxInsights == 3
\* chat calls that record a turn in one behaviour of Spec
MaxTurns == 2
\* start_lesson calls per student and lesson in one behaviour of Spec
MaxAttempts == 1
\* chat requests accepted by the server in one behaviour of SpecLoop
MaxRequests == 2
\* turns recorded in the one chain of SpecHistory
MaxHistory == 6
\* record_interaction calls counted per lesson in one behaviour of SpecFlow
MaxFlowInteractions == 1
\* quiz scores kept per lesson in one behaviour of SpecFlow
MaxFlowQuizScores == 1
\* exchanges kept in the conversation memory of one agent of SpecAgent
MaxExchanges == 3
\* consecutive suggestion requests followed in one behaviour of SpecSuggest
MaxSuggestions == 5
\* start_lesson calls per lesson in one behaviour of SpecLesson
MaxStarts == 2
\* record_interaction calls per lesson in one behaviour of SpecLesson
MaxInteractions == 2
\* quiz scores stored per lesson in one behaviour of SpecLesson
MaxQuizScores == 2

(***************************************************************************)
(* Text primitives                                                         *)
(***************************************************************************)
UpperCase == <<"A","B","C","D","E","F","G","H","I","J","K","L","M",
               "N","O","P","Q","R","S","T","U","V","W","X","Y","Z">>
LowerCase == <<"a","b","c","d","e","f","g","h","i","j","k","l","m",
               "n","o","p","q","r","s","t","u","v","w","x","y","z">>

\* str.lower() on one character
LowerChar(c) ==
    IF \E i \in 1..26 : UpperCase[i] = c
    THEN LowerCase[CHOOSE i \in 1..26 : UpperCase[i] = c]
    ELSE c

\* str.lower()
Lower(s) == [i \in 1..Len(s) |-> LowerChar(s[i])]

\* needle in hay  (Python substring test)
Contains(hay, needle) ==
    \E i \in 1..(Len(hay) - Len(needle) + 1) :
        \A j \in 1..Len(needle) : hay[i + j - 1] = needle[j]

\* str.startswith
StartsWith(s, p) ==
    /\ Len(p) <= Len(s)
    /\ \A j \in 1..Len(p) : s[j] = p[j]

WhiteSpace == {" ", "\n", "\t"}

\* str.strip()
Strip(s) ==
    LET idx == {i \in 1..Len(s) : s[i] \notin WhiteSpace}
    IN  IF idx = {} THEN <<>>
        ELSE LET lo == CHOOSE i \in idx : \A j \in idx : i <= j
                 hi == CHOOSE i \in idx : \A j \in idx : j <= i
             IN  SubSeq(s, lo, hi)

(***************************************************************************)
(* Keywords of the source (all lower case there)                           *)
(***************************************************************************)
K_why == <<"w","h","y">>
K_explain == <<"e","x","p","l","a","i","n">>
K_understand == <<"u","n","d","e","r","s","t","a","n","d">>
K_principle == <<"p","r","i","n","c","i","p","l","e">>
K_concept == <<"c","o","n","c","e","p","t">>
K_theory == <<"t","h","e","o","r","y">>
K_because == <<"b","e","c","a","u","s","e">>
K_meaning == <<"m","e","a","n","i","n","g">>
K_purpose == <<"p","u","r","p","o","s","e">>
K_spiritual == <<"s","p","i","r","i","t","u","a","l">>
K_soul == <<"s","o","u","l">>
K_deeper == <<"d","e","e","p","e","r">>
K_divine == <<"d","i","v","i","n","e">>
K_consciousness == <<"c","o","n","s","c","i","o","u","s","n","e","s","s">>
K_how == <<"h","o","w">>
K_practice == <<"p","r","a","c","t","i","c","e">>
K_apply == <<"a","p","p","l","y">>
K_implement == <<"i","m","p","l","e","m","e","n","t">>
K_daily == <<"d","a","i","l","y">>
K_routine == <<"r","o","u","t","i","n","e">>
K_habit == <<"h","a","b","i","t">>
K_try == <<"t","r","y">>
K_do == <<"d","o">>
K_exercise == <<"e","x","e","r","c","i","s","e">>
K_steps == <<"s","t","e","p","s">>
K_feel == <<"f","e","e","l">>
K_experience == <<"e","x","p","e","r","i","e","n","c","e">>
K_what == <<"w","h","a","t">>
K_action == <<"a","c","t","i","o","n">>
K_learn == <<"l","e","a","r","n">>
K_teach == <<"t","e","a","c","h">>
K_reflect == <<"r","e","f","l","e","c","t">>
K_thank == <<"t","h","a","n","k">>
K_great == <<"g","r","e","a","t">>
K_love == <<"l","o","v","e">>
K_amazing == <<"a","m","a","z","i","n","g">>
K_wonderful == <<"w","o","n","d","e","r","f","u","l">>
K_helpful == <<"h","e","l","p","f","u","l">>
K_confused == <<"c","o","n","f","u","s","e","d">>
K_difficult == <<"d","i","f","f","i","c","u","l","t">>
K_hard == <<"h","a","r","d">>
K_frustrated == <<"f","r","u","s","t","r","a","t","e","d">>
K_stuck == <<"s","t","u","c","k">>
K_meaning_of_life == <<"m","e","a","n","i","n","g"," ","o","f"," ","l","i","f","e">>

(***************************************************************************)
(* Messages and generator outputs the operations are applied to            *)
(***************************************************************************)
\* "What does this mean for my soul?"
M_soul ==
    <<"W","h","a","t"," ","d","o","e","s"," ","t","h","i","s"," ","m","e","a","n"," ","f","o",
      "r"," ","m","y"," ","s","o","u","l","?">>

\* "Why is this practice important?"
M_why_practice ==
    <<"W","h","y"," ","i","s"," ","t","h","i","s"," ","p","r","a","c","t","i","c","e"," ","i",
      "m","p","o","r","t","a","n","t","?">>

\* "How do I practice this daily?"
M_practice_daily ==
    <<"H","o","w"," ","d","o"," ","I"," ","p","r","a","c","t","i","c","e"," ","t","h","i","s",
      " ","d","a","i","l","y","?">>

\* "How can I practice my Sankalpa daily?"
M_sankalpa_daily ==
    <<"H","o","w"," ","c","a","n"," ","I"," ","p","r","a","c","t","i","c","e"," ","m","y"," ",
      "S","a","n","k","a","l","p","a"," ","d","a","i","l","y","?">>

\* "Why is making a Sankalpa important?"
M_why_sankalpa ==
    <<"W","h","y"," ","i","s"," ","m","a","k","i","n","g"," ","a"," ","S","a","n","k","a","l",
      "p","a"," ","i","m","p","o","r","t","a","n","t","?">>

\* "What does this mean for my spiritual journey?"
M_spiritual_journey ==
    <<"W","h","a","t"," ","d","o","e","s"," ","t","h","i","s"," ","m","e","a","n"," ","f","o",
      "r"," ","m","y"," ","s","p","i","r","i","t","u","a","l"," ","j","o","u","r","n","e","y",
      "?">>

\* "How do I apply this insight in my daily life?"
M_apply_daily ==
    <<"H","o","w"," ","d","o"," ","I"," ","a","p","p","l","y"," ","t","h","i","s"," ","i","n",
      "s","i","g","h","t"," ","i","n"," ","m","y"," ","d","a","i","l","y"," ","l","i","f","e",
      "?">>

\* "How can I practice kindness daily?"
M_kindness_daily ==
    <<"H","o","w"," ","c","a","n"," ","I"," ","p","r","a","c","t","i","c","e"," ","k","i","n",
      "d","n","e","s","s"," ","d","a","i","l","y","?">>

\* "Why is compassion important for spiritual growth?"
M_compassion ==
    <<"W","h","y"," ","i","s"," ","c","o","m","p","a","s","s","i","o","n"," ","i","m","p","o",
      "r","t","a","n","t"," ","f","o","r"," ","s","p","i","r","i","t","u","a","l"," ","g","r",
      "o","w","t","h","?">>

\* "What is the deeper meaning of consciousness?"
M_deeper_meaning ==
    <<"W","h","a","t"," ","i","s"," ","t","h","e"," ","d","e","e","p","e","r"," ","m","e","a",
      "n","i","n","g"," ","o","f"," ","c","o","n","s","c","i","o","u","s","n","e","s","s","?">>

\* "Explain the concept of dharma"
M_dharma ==
    <<"E","x","p","l","a","i","n"," ","t","h","e"," ","c","o","n","c","e","p","t"," ","o","f",
      " ","d","h","a","r","m","a">>

\* "What steps should I take to meditate?"
M_meditate ==
    <<"W","h","a","t"," ","s","t","e","p","s"," ","s","h","o","u","l","d"," ","I"," ","t","a",
      "k","e"," ","t","o"," ","m","e","d","i","t","a","t","e","?">>

\* "How do I practice gratitude daily?"
M_gratitude ==
    <<"H","o","w"," ","d","o"," ","I"," ","p","r","a","c","t","i","c","e"," ","g","r","a",
      "t","i","t","u","d","e"," ","d","a","i","l","y","?">>

\* "Why is compassion important?"
M_why_compassion ==
    <<"W","h","y"," ","i","s"," ","c","o","m","p","a","s","s","i","o","n"," ","i","m","p",
      "o","r","t","a","n","t","?">>

\* "hi"
M_hi ==
    <<"h","i">>

\* "Namaste, teacher"
M_namaste ==
    <<"N","a","m","a","s","t","e",","," ","t","e","a","c","h","e","r">>

\* "Why? Because I want to understand: explain the principle, the concept and the theory."
M_dense_tree ==
    <<"W","h","y","?"," ","B","e","c","a","u","s","e"," ","I"," ","w","a","n","t"," ","t","o",
      " ","u","n","d","e","r","s","t","a","n","d",":"," ","e","x","p","l","a","i","n"," ","t",
      "h","e"," ","p","r","i","n","c","i","p","l","e",","," ","t","h","e"," ","c","o","n","c",
      "e","p","t"," ","a","n","d"," ","t","h","e"," ","t","h","e","o","r","y",".">>

\* "Please explain the principle, the concept and the theory so I understand."
M_dense_tree5 ==
    <<"P","l","e","a","s","e"," ","e","x","p","l","a","i","n"," ","t","h","e"," ","p","r","i",
      "n","c","i","p","l","e",","," ","t","h","e"," ","c","o","n","c","e","p","t"," ","a","n",
      "d"," ","t","h","e"," ","t","h","e","o","r","y"," ","s","o"," ","I"," ","u","n","d","e",
      "r","s","t","a","n","d",".">>

\* "why explain understand principle concept theory meaning purpose spiritual soul deeper divine how practice apply implement daily routine try do exercise steps feel experience what"
M_dense_second ==
    <<"w","h","y"," ","e","x","p","l","a","i","n"," ","u","n","d","e","r","s","t","a","n","d",
      " ","p","r","i","n","c","i","p","l","e"," ","c","o","n","c","e","p","t"," ","t","h","e",
      "o","r","y"," ","m","e","a","n","i","n","g"," ","p","u","r","p","o","s","e"," ","s","p",
      "i","r","i","t","u","a","l"," ","s","o","u","l"," ","d","e","e","p","e","r"," ","d","i",
      "v","i","n","e"," ","h","o","w"," ","p","r","a","c","t","i","c","e"," ","a","p","p","l",
      "y"," ","i","m","p","l","e","m","e","n","t"," ","d","a","i","l","y"," ","r","o","u","t",
      "i","n","e"," ","t","r","y"," ","d","o"," ","e","x","e","r","c","i","s","e"," ","s","t",
      "e","p","s"," ","f","e","e","l"," ","e","x","p","e","r","i","e","n","c","e"," ","w","h",
      "a","t">>

\* "why explain understand principle concept theory because meaning purpose spiritual soul deeper divine consciousness how practice apply implement daily routine habit try do exercise steps feel experience what"
M_dense_all ==
    <<"w","h","y"," ","e","x","p","l","a","i","n"," ","u","n","d","e","r","s","t","a","n","d",
      " ","p","r","i","n","c","i","p","l","e"," ","c","o","n","c","e","p","t"," ","t","h","e",
      "o","r","y"," ","b","e","c","a","u","s","e"," ","m","e","a","n","i","n","g"," ","p","u",
      "r","p","o","s","e"," ","s","p","i","r","i","t","u","a","l"," ","s","o","u","l"," ","d",
      "e","e","p","e","r"," ","d","i","v","i","n","e"," ","c","o","n","s","c","i","o","u","s",
      "n","e","s","s"," ","h","o","w"," ","p","r","a","c","t","i","c","e"," ","a","p","p","l",
      "y"," ","i","m","p","l","e","m","e","n","t"," ","d","a","i","l","y"," ","r","o","u","t",
      "i","n","e"," ","h","a","b","i","t"," ","t","r","y"," ","d","o"," ","e","x","e","r","c",
      "i","s","e"," ","s","t","e","p","s"," ","f","e","e","l"," ","e","x","p","e","r","i","e",
      "n","c","e"," ","w","h","a","t">>

\* "Thank you, this is helpful"
M_thanks ==
    <<"T","h","a","n","k"," ","y","o","u",","," ","t","h","i","s"," ","i","s"," ","h","e","l",
      "p","f","u","l">>

\* "That's a great question! Let me help you understand this concept better."
G_great ==
    <<"T","h","a","t","'","s"," ","a"," ","g","r","e","a","t"," ","q","u","e","s","t","i","o",
      "n","!"," ","L","e","t"," ","m","e"," ","h","e","l","p"," ","y","o","u"," ","u","n","d",
      "e","r","s","t","a","n","d"," ","t","h","i","s"," ","c","o","n","c","e","p","t"," ","b",
      "e","t","t","e","r",".">>

\* " ok \n"
G_short ==
    <<" ","o","k"," ","\n">>

\* "You said: thank you, this is helpful"
G_echo ==
    <<"Y","o","u"," ","s","a","i","d",":"," ","t","h","a","n","k"," ","y","o","u",","," ","t",
      "h","i","s"," ","i","s"," ","h","e","l","p","f","u","l">>

\* the messages of test_agent_chaining_transitions
\* "Why does this practice work?"
M_practice_work ==
    <<"W","h","y"," ","d","o","e","s"," ","t","h","i","s"," ","p","r","a","c","t","i","c","e",
      " ","w","o","r","k","?">>

\* "How do I apply this wisdom daily?"
M_apply_wisdom ==
    <<"H","o","w"," ","d","o"," ","I"," ","a","p","p","l","y"," ","t","h","i","s"," ","w","i",
      "s","d","o","m"," ","d","a","i","l","y","?">>

\* "What is the spiritual significance?"
M_significance ==
    <<"W","h","a","t"," ","i","s"," ","t","h","e"," ","s","p","i","r","i","t","u","a","l"," ",
      "s","i","g","n","i","f","i","c","a","n","c","e","?">>

\* "How can I practice this insight?"
M_practice_insight ==
    <<"H","o","w"," ","c","a","n"," ","I"," ","p","r","a","c","t","i","c","e"," ","t","h","i",
      "s"," ","i","n","s","i","g","h","t","?">>


Keywords ==
    {K_why, K_explain, K_understand, K_principle, K_concept, K_theory, K_because,
     K_meaning, K_purpose, K_spiritual, K_soul, K_deeper, K_divine, K_consciousness,
     K_how, K_practice, K_apply, K_implement, K_daily, K_routine, K_habit, K_try,
     K_do, K_exercise, K_steps, K_feel, K_experience, K_what, K_action, K_learn,
     K_teach, K_reflect, K_thank, K_great, K_love, K_amazing, K_wonderful,
     K_helpful, K_confused, K_difficult, K_hard, K_frustrated, K_stuck,
     K_meaning_of_life}

\* the user messages of the repository's tests and of the examples
TestMessages ==
    {M_soul, M_why_practice, M_practice_daily, M_sankalpa_daily, M_why_sankalpa,
     M_spiritual_journey, M_apply_daily, M_kindness_daily, M_compassion,
     M_deeper_meaning, M_dharma, M_meditate}

\* messages that carry most or all trigger words of a rule
DenseMessages == {M_dense_tree, M_dense_tree5, M_dense_second, M_dense_all}

\* the two cold-start scenarios
ScenarioMessages == {M_gratitude, M_why_compassion}

Messages ==
    TestMessages \cup DenseMessages \cup ScenarioMessages \cup {M_hi, M_namaste, M_thanks}

\* the messages of the transition checks of the production tests
TransitionMessages ==
    {M_practice_work, M_apply_wisdom, M_significance, M_practice_insight}

\* the keywords found in the lower-cased message: user_input.lower(), then
\* `keyword in user_lower` for every keyword; tabulated once per message
keywords_in_lower == [m \in Messages \cup TransitionMessages |-> {k \in Keywords : Contains(Lower(m), k)}]

\* `keyword in message.lower()`
KeywordIn(k, m) == k \in keywords_in_lower[m]

\* sum(1 for keyword in keywords if keyword in message_lower)
CountKeywords(keywords, m) ==
    Cardinality({i \in 1..Len(keywords) : KeywordIn(keywords[i], m)})

(***************************************************************************)
(* agents/agent_chaining.py                                                *)
(***************************************************************************)
\* AgentType
Personas == {"seed", "tree", "sky"}

\* Python's None (a missing lesson id, a missing rule)
None == "None"

\* confidences are integers in units of 1/Scale; 42 makes k/6 and k/7 exact
Scale == 42 * 100

\* n/10 as a confidence
Tenths(n) == (n * Scale) \div 10

\* the rule table with a copy-paste slip: the seed -> sky rule targets seed
transition_rules_self_rule ==
    << [from_agent |-> "seed", to_agent |-> "tree",
        triggers |-> <<K_why, K_explain, K_understand, K_principle, K_concept,
                       K_theory, K_because>>,
        confidence_threshold |-> Tenths(6)],
       [from_agent |-> "tree", to_agent |-> "sky",
        triggers |-> <<K_meaning, K_purpose, K_spiritual, K_soul, K_deeper,
                       K_divine, K_consciousness>>,
        confidence_threshold |-> Tenths(6)],
       [from_agent |-> "sky", to_agent |-> "seed",
        triggers |-> <<K_how, K_practice, K_apply, K_implement, K_daily,
                       K_routine, K_habit>>,
        confidence_threshold |-> Tenths(6)],
       [from_agent |-> "tree", to_agent |-> "seed",
        triggers |-> <<K_practice, K_try, K_do, K_exercise, K_apply,
                       K_implement, K_steps>>,
        confidence_threshold |-> Tenths(7)],
       [from_agent |-> "seed", to_agent |-> "seed",
        triggers |-> <<K_feel, K_experience, K_meaning, K_why, K_purpose,
                       K_spiritual>>,
        confidence_threshold |-> Tenths(7)],
       [from_agent |-> "sky", to_agent |-> "tree",
        triggers |-> <<K_understand, K_explain, K_how, K_what, K_principle,
                       K_concept>>,
        confidence_threshold |-> Tenths(7)] >>

\* AgentChainManager._initialize_transition_rules, in declaration order
transition_rules ==
    << [from_agent |-> "seed", to_agent |-> "tree",
        triggers |-> <<K_why, K_explain, K_understand, K_principle, K_concept,
                       K_theory, K_because>>,
        confidence_threshold |-> Tenths(6)],
       [from_agent |-> "tree", to_agent |-> "sky",
        triggers |-> <<K_meaning, K_purpose, K_spiritual, K_soul, K_deeper,
                       K_divine, K_consciousness>>,
        confidence_threshold |-> Tenths(6)],
       [from_agent |-> "sky", to_agent |-> "seed",
        triggers |-> <<K_how, K_practice, K_apply, K_implement, K_daily,
                       K_routine, K_habit>>,
        confidence_threshold |-> Tenths(6)],
       [from_agent |-> "tree", to_agent |-> "seed",
        triggers |-> <<K_practice, K_try, K_do, K_exercise, K_apply,
                       K_implement, K_steps>>,
        confidence_threshold |-> Tenths(7)],
       [from_agent |-> "seed", to_agent |-> "sky",
        triggers |-> <<K_feel, K_experience, K_meaning, K_why, K_purpose,
                       K_spiritual>>,
        confidence_threshold |-> Tenths(7)],
       [from_agent |-> "sky", to_agent |-> "tree",
        triggers |-> <<K_understand, K_explain, K_how, K_what, K_principle,
                       K_concept>>,
        confidence_threshold |-> Tenths(7)] >>

\* AgentChainContext.__init__
AgentChainContext(student_id, lesson_id, chain_id) ==
    [student_id |-> student_id,
     lesson_id |-> lesson_id,
     chain_id |-> chain_id,
     conversation_history |-> <<>>,
     agent_insights |-> <<>>,
     learning_progress |-> <<>>,
     student_preferences |-> <<>>,
     unresolved_questions |-> <<>>,
     key_concepts_covered |-> <<>>,
     emotional_state |-> "neutral",
     engagement_level |-> "medium"]

\* add_agent_insight that stores the list read before the turn plus the new
\* insight: earlier insights of the persona are lost
add_agent_insight_overwrite(context, agent_type, insight) ==
    [context EXCEPT !.agent_insights =
         [k \in DOMAIN context.agent_insights \ {agent_type} |->
              context.agent_insights[k]] @@ (agent_type :> <<insight>>)]

\* AgentChainContext.add_agent_insight
add_agent_insight(context, agent_type, insight) ==
    LET old == IF agent_type \in DOMAIN context.agent_insights
               THEN context.agent_insights[agent_type] ELSE <<>>
        rest == [k \in DOMAIN context.agent_insights \ {agent_type} |->
                     context.agent_insights[k]]
    IN  [context EXCEPT !.agent_insights =
             rest @@ (agent_type :> Append(old, insight))]

\* trigger_score of AgentTransitionRule.should_transition
trigger_score(rule, user_input) == CountKeywords(rule.triggers, user_input)

\* trigger_confidence of AgentTransitionRule.should_transition
trigger_confidence(rule, user_input) ==
    IF Len(rule.triggers) > 0
    THEN (trigger_score(rule, user_input) * Scale) \div Len(rule.triggers)
    ELSE 0

\* context_score with the bonuses written as 3 and 2 instead of 0.3 and 0.2
context_score_unscaled(rule, context) ==
    (IF /\ rule.from_agent \in DOMAIN context.agent_insights
        /\ Len(context.agent_insights[rule.from_agent]) >= 3
     THEN Tenths(30) ELSE 0)
    + (IF context.unresolved_questions # <<>> THEN Tenths(20) ELSE 0)

\* context_score of AgentTransitionRule.should_transition
context_score(rule, context) ==
    (IF /\ rule.from_agent \in DOMAIN context.agent_insights
        /\ Len(context.agent_insights[rule.from_agent]) >= 3
     THEN Tenths(3) ELSE 0)
    + (IF context.unresolved_questions # <<>> THEN Tenths(2) ELSE 0)

\* total_confidence of AgentTransitionRule.should_transition
total_confidence(rule, user_input, context) ==
    (trigger_confidence(rule, user_input) * 7) \div 10
    + (context_score(rule, context) * 3) \div 10

\* AgentTransitionRule.should_transition: (should_transition, total_confidence)
rule_should_transition(rule, user_input, context) ==
    [should_transition |->
         total_confidence(rule, user_input, context) >= rule.confidence_threshold,
     confidence |-> total_confidence(rule, user_input, context)]

\* chain_key that formats an absent lesson_id as well: f"{student_id}_{lesson_id}"
chain_key_always_joined(student_id, lesson_id) ==
    student_id \o "_" \o lesson_id

\* chain_key of AgentChainManager.get_or_create_chain: f"{student_id}_{lesson_id}"
chain_key(student_id, lesson_id) ==
    IF lesson_id # None /\ lesson_id # ""
    THEN student_id \o "_" \o lesson_id
    ELSE student_id

\* get_or_create_chain without the `if chain_key not in self.active_chains`
get_or_create_chain_always_new(chains, student_id, lesson_id) ==
    [k \in DOMAIN chains \cup {chain_key(student_id, lesson_id)} |->
        IF k = chain_key(student_id, lesson_id)
        THEN AgentChainContext(student_id, lesson_id, Cardinality(DOMAIN chains) + 1)
        ELSE chains[k]]

\* AgentChainManager.get_or_create_chain: the store after the call; the context
\* returned is the one stored under chain_key.  chain_id is a uuid4, modelled
\* as a number no stored context has
get_or_create_chain(chains, student_id, lesson_id) ==
    IF chain_key(student_id, lesson_id) \in DOMAIN chains
    THEN chains
    ELSE chains @@ (chain_key(student_id, lesson_id) :>
             AgentChainContext(student_id, lesson_id,
                               Cardinality(DOMAIN chains) + 1))

\* AgentChainManager._get_transition_approach
_get_transition_approach(from_agent, to_agent) ==
    CASE from_agent = "seed" /\ to_agent = "tree" ->
             "Build on practical experience to explore underlying principles"
      [] from_agent = "tree" /\ to_agent = "sky" ->
             "Deepen conceptual understanding into spiritual insight"
      [] from_agent = "sky" /\ to_agent = "seed" ->
             "Ground spiritual insights in practical application"
      [] from_agent = "tree" /\ to_agent = "seed" ->
             "Transform understanding into actionable practice"
      [] from_agent = "seed" /\ to_agent = "sky" ->
             "Reflect on the deeper meaning of practical experience"
      [] from_agent = "sky" /\ to_agent = "tree" ->
             "Clarify insights through conceptual frameworks"
      [] OTHER -> "Smooth transition between perspectives"

\* seq[-n:]
LastN(seq, n) ==
    IF Len(seq) <= n THEN seq ELSE SubSeq(seq, Len(seq) - n + 1, Len(seq))

\* _prepare_transition_context that hands over conversation_history[-5:]
_prepare_transition_context_last_five(context, from_agent, to_agent) ==
    [handoff_summary |-> <<"Transitioning from", from_agent, "to", to_agent>>,
     previous_agent_insights |->
         IF from_agent \in DOMAIN context.agent_insights
         THEN context.agent_insights[from_agent] ELSE <<>>,
     student_state |-> [engagement |-> context.engagement_level,
                        emotional_state |-> context.emotional_state,
                        learning_progress |-> context.learning_progress],
     conversation_context |-> LastN(context.conversation_history, 5),
     unresolved_questions |-> context.unresolved_questions,
     recommended_approach |-> _get_transition_approach(from_agent, to_agent)]

\* AgentChainManager._prepare_transition_context
_prepare_transition_context(context, from_agent, to_agent) ==
    [handoff_summary |-> <<"Transitioning from", from_agent, "to", to_agent>>,
     previous_agent_insights |->
         IF from_agent \in DOMAIN context.agent_insights
         THEN context.agent_insights[from_agent] ELSE <<>>,
     student_state |-> [engagement |-> context.engagement_level,
                        emotional_state |-> context.emotional_state,
                        learning_progress |-> context.learning_progress],
     conversation_context |-> LastN(context.conversation_history, 3),
     unresolved_questions |-> context.unresolved_questions,
     recommended_approach |-> _get_transition_approach(from_agent, to_agent)]

\* the loop with `confidence >= best_confidence`: a tie goes to the rule
\* declared last
RECURSIVE ScanRules_ties_last(_, _, _, _, _, _)
ScanRules_ties_last(i, current_agent, user_input, context, best, best_confidence) ==
    IF i > Len(transition_rules)
    THEN [best_transition |-> best, best_confidence |-> best_confidence]
    ELSE LET rule == transition_rules[i]
             r == rule_should_transition(rule, user_input, context)
         IN  IF /\ rule.from_agent = current_agent
                /\ r.should_transition
                /\ r.confidence >= best_confidence
             THEN ScanRules_ties_last(i + 1, current_agent, user_input, context,
                                      i, r.confidence)
             ELSE ScanRules_ties_last(i + 1, current_agent, user_input, context,
                                      best, best_confidence)

\* the loop of AgentChainManager.suggest_agent_transition over rules i..6:
\* best is the index of best_transition (0 for None)
RECURSIVE ScanRules(_, _, _, _, _, _)
ScanRules(i, current_agent, user_input, context, best, best_confidence) ==
    IF i > Len(transition_rules)
    THEN [best_transition |-> best, best_confidence |-> best_confidence]
    ELSE LET rule == transition_rules[i]
             r == rule_should_transition(rule, user_input, context)
         IN  IF /\ rule.from_agent = current_agent
                /\ r.should_transition
                /\ r.confidence > best_confidence
             THEN ScanRules(i + 1, current_agent, user_input, context,
                            i, r.confidence)
             ELSE ScanRules(i + 1, current_agent, user_input, context,
                            best, best_confidence)

\* the value returned by AgentChainManager.suggest_agent_transition for a
\* current_agent that is an AgentType, on the context of the key
suggest_agent_transition(current_agent, user_input, context) ==
    LET scan == ScanRules(1, current_agent, user_input, context, 0, 0)
    IN  IF scan.best_transition # 0
        THEN [should_transition |-> TRUE,
              recommended_agent |-> transition_rules[scan.best_transition].to_agent,
              confidence |-> scan.best_confidence,
              reason |-> <<"Detected transition triggers",
                           transition_rules[scan.best_transition].triggers>>,
              transition_context |->
                  _prepare_transition_context(context, current_agent,
                      transition_rules[scan.best_transition].to_agent)]
        ELSE [should_transition |-> FALSE,
              recommended_agent |-> current_agent,
              confidence |-> Scale,
              reason |-> "No strong transition signals detected"]

\* len(user_input), len(response): a symbol that names a fixed literal of the
\* source counts with the literal's length, a character counts 1
ItemLen(c) ==
    IF c \in {"fallback:seed", "fallback:tree", "fallback:sky"}
    THEN (CASE c = "fallback:seed" -> 763
            [] c = "fallback:tree" -> 191
            [] c = "fallback:sky" -> 186)
    ELSE Len(c)

\* the lengths of the items of s at the positions idx, added up
RECURSIVE SumLen(_, _)
SumLen(s, idx) ==
    IF idx = {} THEN 0
    ELSE LET i == CHOOSE i \in idx : TRUE
         IN  ItemLen(s[i]) + SumLen(s, idx \ {i})

\* len(s): the characters count 1 each, the other items their own length
StrLen(s) ==
    LET literals == {i \in 1..Len(s) : ItemLen(s[i]) # 1}
    IN  (Len(s) - Cardinality(literals)) + SumLen(s, literals)

\* _update_student_state that also keeps the user_input as an unresolved
\* question
_update_student_state_keeps_question(context, user_input, agent_response) ==
    LET positive_words == <<K_thank, K_great, K_love, K_amazing, K_wonderful, K_helpful>>
        negative_words == <<K_confused, K_difficult, K_hard, K_frustrated, K_stuck>>
    IN  [context EXCEPT
            !.unresolved_questions = Append(@, user_input),
            !.engagement_level =
                IF StrLen(user_input) > 50 THEN "high"
                ELSE IF StrLen(user_input) < 10 THEN "low"
                ELSE "medium",
            !.emotional_state =
                IF CountKeywords(positive_words, user_input) > 0 THEN "positive"
                ELSE IF CountKeywords(negative_words, user_input) > 0 THEN "challenged"
                ELSE "neutral"]

\* AgentChainManager._update_student_state
_update_student_state(context, user_input, agent_response) ==
    LET positive_words == <<K_thank, K_great, K_love, K_amazing, K_wonderful, K_helpful>>
        negative_words == <<K_confused, K_difficult, K_hard, K_frustrated, K_stuck>>
    IN  [context EXCEPT
            !.engagement_level =
                IF StrLen(user_input) > 50 THEN "high"
                ELSE IF StrLen(user_input) < 10 THEN "low"
                ELSE "medium",
            !.emotional_state =
                IF CountKeywords(positive_words, user_input) > 0 THEN "positive"
                ELSE IF CountKeywords(negative_words, user_input) > 0 THEN "challenged"
                ELSE "neutral"]

\* record_agent_interaction keeping only the latest turn of the history
record_agent_interaction_windowed(chains, agent_type, user_input, agent_response, student_id, lesson_id, insights) ==
    LET key == chain_key(student_id, lesson_id)
        created == get_or_create_chain(chains, student_id, lesson_id)
        context == created[key]
        turned == [context EXCEPT !.conversation_history =
                       <<[agent |-> agent_type,
                          user_input |-> user_input,
                          agent_response |-> agent_response]>>]
        noted == IF DOMAIN insights # {}
                 THEN add_agent_insight(turned, agent_type, insights)
                 ELSE turned
    IN  [created EXCEPT ![key] =
             _update_student_state(noted, user_input, agent_response)]

\* AgentChainManager.record_agent_interaction: the store after the call
\* (insights is a dict; `if insights` holds for a non-empty one, and <<>>
\* stands for None and for {})
record_agent_interaction(chains, agent_type, user_input, agent_response, student_id, lesson_id, insights) ==
    LET key == chain_key(student_id, lesson_id)
        created == get_or_create_chain(chains, student_id, lesson_id)
        context == created[key]
        turned == [context EXCEPT !.conversation_history =
                       Append(@, [agent |-> agent_type,
                                  user_input |-> user_input,
                                  agent_response |-> agent_response])]
        noted == IF DOMAIN insights # {}
                 THEN add_agent_insight(turned, agent_type, insights)
                 ELSE turned
    IN  [created EXCEPT ![key] =
             _update_student_state(noted, user_input, agent_response)]

\* the dict returned by AgentChainManager.get_chain_summary for a stored context
\* (agents_used is the key set of agent_insights)
get_chain_summary(context) ==
    [chain_id |-> context.chain_id,
     total_interactions |-> Len(context.conversation_history),
     agents_used |-> DOMAIN context.agent_insights,
     current_state |-> [engagement |-> context.engagement_level,
                        emotional_state |-> context.emotional_state],
     learning_progress |-> context.learning_progress,
     unresolved_questions |-> Len(context.unresolved_questions)]

\* min(scores, key=scores.get) in the place of max
MaxKey_least(seed, tree, sky) ==
    IF seed <= tree /\ seed <= sky THEN "seed"
    ELSE IF tree <= sky THEN "tree"
    ELSE "sky"

\* max(scores, key=scores.get) over the dict {"seed":..,"tree":..,"sky":..}:
\* the first key, in insertion order, that holds the maximum
MaxKey(seed, tree, sky) ==
    IF seed >= tree /\ seed >= sky THEN "seed"
    ELSE IF tree >= sky THEN "tree"
    ELSE "sky"

\* min(a, b)
Min(a, b) == IF a <= b THEN a ELSE b

\* the confidence without the clamp: best_score / 6.0
route_confidence_unclamped(best_score) == (best_score * Scale) \div 6

\* confidence of route_to_best_agent: min(best_score / 6.0, 1.0)
route_confidence(best_score) == Min((best_score * Scale) \div 6, Scale)

\* AgentChainManager.route_to_best_agent (conversation_context is not read)
route_to_best_agent(student_message, conversation_context) ==
    LET practice_keywords == <<K_how, K_practice, K_do, K_steps, K_exercise,
                               K_daily, K_routine, K_action, K_implement>>
        wisdom_keywords == <<K_why, K_meaning, K_understand, K_explain,
                             K_concept, K_principle, K_learn, K_teach>>
        philosophy_keywords == <<K_purpose, K_soul, K_spiritual, K_deeper,
                                 K_consciousness, K_meaning_of_life, K_reflect>>
        message_lower == Lower(student_message)
        how == StartsWith(message_lower, K_how)
        why == ~how /\ StartsWith(message_lower, K_why)
        what == /\ ~how /\ ~why /\ StartsWith(message_lower, K_what)
                /\ (KeywordIn(K_meaning, student_message)
                       \/ KeywordIn(K_purpose, student_message))
        practice_score == 2 * CountKeywords(practice_keywords, student_message)
                          + (IF how THEN 3 ELSE 0)
        wisdom_score == 2 * CountKeywords(wisdom_keywords, student_message)
                        + (IF why THEN 3 ELSE 0)
        philosophy_score == 2 * CountKeywords(philosophy_keywords, student_message)
                            + (IF what THEN 3 ELSE 0)
        scores == [seed |-> practice_score, tree |-> wisdom_score,
                   sky |-> philosophy_score]
        best_agent == MaxKey(practice_score, wisdom_score, philosophy_score)
        best_score == scores[best_agent]
    IN  IF best_score = 0
        THEN [should_transition |-> TRUE,
              recommended_agent |-> "seed",
              confidence |-> Scale \div 2,
              reason |-> "Default routing to seed agent for general guidance",
              context_data |-> [keyword_scores |-> scores, routing_type |-> "initial"]]
        ELSE [should_transition |-> TRUE,
              recommended_agent |-> best_agent,
              confidence |-> route_confidence(best_score),
              reason |-> <<"Routed to agent based on message analysis",
                           best_agent, best_score>>,
              context_data |-> [keyword_scores |-> scores, routing_type |-> "initial"]]


\* should_transition that leaves out `best_agent != current_agent`
should_transition_any_match(current_agent, student_message, agent_response, conversation_context) ==
    LET practice_keywords == <<K_how, K_practice, K_do, K_steps, K_exercise,
                               K_daily, K_routine>>
        wisdom_keywords == <<K_why, K_meaning, K_understand, K_explain,
                             K_concept, K_principle>>
        philosophy_keywords == <<K_purpose, K_soul, K_spiritual, K_deeper,
                                 K_consciousness, K_meaning_of_life>>
        practice_score == CountKeywords(practice_keywords, student_message)
        wisdom_score == CountKeywords(wisdom_keywords, student_message)
        philosophy_score == CountKeywords(philosophy_keywords, student_message)
        scores == [seed |-> practice_score, tree |-> wisdom_score,
                   sky |-> philosophy_score]
        best_agent == MaxKey(practice_score, wisdom_score, philosophy_score)
        best_score == scores[best_agent]
    IN  [should_transition |-> best_score > 0,
         recommended_agent |-> best_agent,
         confidence |-> Min((best_score * Scale) \div 3, Scale),
         reason |-> <<"Message contains keywords suggesting agent expertise",
                      best_score, best_agent>>,
         context_data |-> [keyword_scores |-> scores,
                           current_agent |-> current_agent,
                           message_analysis |-> [practice_score |-> practice_score,
                                                 wisdom_score |-> wisdom_score,
                                                 philosophy_score |-> philosophy_score]]]

\* AgentChainManager.should_transition (agent_response and
\* conversation_context are not read)
should_transition(current_agent, student_message, agent_response, conversation_context) ==
    LET practice_keywords == <<K_how, K_practice, K_do, K_steps, K_exercise,
                               K_daily, K_routine>>
        wisdom_keywords == <<K_why, K_meaning, K_understand, K_explain,
                             K_concept, K_principle>>
        philosophy_keywords == <<K_purpose, K_soul, K_spiritual, K_deeper,
                                 K_consciousness, K_meaning_of_life>>
        practice_score == CountKeywords(practice_keywords, student_message)
        wisdom_score == CountKeywords(wisdom_keywords, student_message)
        philosophy_score == CountKeywords(philosophy_keywords, student_message)
        scores == [seed |-> practice_score, tree |-> wisdom_score,
                   sky |-> philosophy_score]
        best_agent == MaxKey(practice_score, wisdom_score, philosophy_score)
        best_score == scores[best_agent]
    IN  [should_transition |-> best_agent # current_agent /\ best_score > 0,
         recommended_agent |-> best_agent,
         confidence |-> Min((best_score * Scale) \div 3, Scale),
         reason |-> <<"Message contains keywords suggesting agent expertise",
                      best_score, best_agent>>,
         context_data |-> [keyword_scores |-> scores,
                           current_agent |-> current_agent,
                           message_analysis |-> [practice_score |-> practice_score,
                                                 wisdom_score |-> wisdom_score,
                                                 philosophy_score |-> philosophy_score]]]
(***************************************************************************)
(* The curriculum (curriculum/ingestion)                                   *)
(***************************************************************************)
\* "required" of LESSON_SCHEMA
LessonRequired == {"id", "title", "level", "category", "learning_objectives", "estimated_duration", "content", "quiz", "metadata"}

\* "required" of the metadata object of LESSON_SCHEMA
MetadataRequired == {"created_by", "created_date", "last_modified", "version", "difficulty"}

\* "enum" of the type of a quiz item of LESSON_SCHEMA
QuizTypes == {"multiple_choice", "true_false", "short_answer", "reflection", "scenario"}

\* jsonschema.validate(instance=lesson, schema=LESSON_SCHEMA) passes: the
\* required keys, the enums and the quiz items of the schema
validate(lesson) ==
    /\ LessonRequired \subseteq DOMAIN lesson
    /\ lesson.level \in {"Foundation", "Seed", "Tree", "Sky"}
    /\ lesson.category \in {"foundation", "dharma", "artha", "kama", "moksha"}
    /\ Len(lesson.learning_objectives) >= 1
    /\ lesson.estimated_duration >= 1
    /\ "text" \in DOMAIN lesson.content
    /\ Len(lesson.quiz) >= 1
    /\ \A i \in 1..Len(lesson.quiz) :
           /\ {"id", "type", "question"} \subseteq DOMAIN lesson.quiz[i]
           /\ lesson.quiz[i].type \in QuizTypes
    /\ MetadataRequired \subseteq DOMAIN lesson.metadata
    /\ lesson.metadata.difficulty \in 1..5

\* the quiz of a lesson: a choice question, a reflection question without a
\* correct answer, and a scenario
QuizQuestions ==
    << [id |-> "q1", type |-> "multiple_choice", question |-> "Test?",
        options |-> <<"A", "B">>, correct_answer |-> 0,
        explanation |-> "A it is"],
       [id |-> "q2", type |-> "reflection", question |-> "What did you learn?",
        guidance |-> "Take your time"],
       [id |-> "q3", type |-> "scenario", question |-> "What would you do?",
        options |-> <<"A", "B", "C">>, correct_answer |-> 2,
        agent_specific_feedback |-> [seed |-> "Practise it", tree |-> "Think it over"]] >>

\* a lesson that LESSON_SCHEMA accepts
ValidLesson(lesson_id, title) ==
    [id |-> lesson_id, title |-> title, level |-> "Seed", category |-> "dharma",
     learning_objectives |-> <<"Know the test">>, estimated_duration |-> 30,
     content |-> [text |-> "Test content"],
     quiz |-> QuizQuestions,
     metadata |-> [created_by |-> "test", created_date |-> "2024-01-01",
                   last_modified |-> "2024-01-01", version |-> "1.0",
                   difficulty |-> 1]]

\* the lesson files of a curriculum directory: two valid lessons, a lesson
\* that lacks required fields and a file that is not JSON.  json is whether
\* json.load parses the file, instance is what it returns
LessonFiles ==
    {[name |-> "valid_lesson.json", json |-> TRUE,
      instance |-> ValidLesson("test_valid_001", "Valid Test Lesson")],
     [name |-> "second_lesson.json", json |-> TRUE,
      instance |-> ValidLesson("test_valid_002", "Second Test Lesson")],
     [name |-> "invalid_lesson.json", json |-> TRUE,
      instance |-> [id |-> "test_invalid_001", title |-> "Invalid Test Lesson"]],
     [name |-> "corrupted_lesson.json", json |-> FALSE, instance |-> <<>>]}

\* CurriculumIngestion.load_lesson: the lesson, or the ValueError it raises
load_lesson(file) ==
    IF ~file.json
    THEN [raised |-> "ValueError", message |-> "Invalid JSON"]
    ELSE IF ~validate(file.instance)
    THEN [raised |-> "ValueError", message |-> "Validation error"]
    ELSE [raised |-> "", lesson |-> file.instance]

\* CurriculumIngestion.load_all_lessons on the files in the order glob gives
\* them, from the idx-th on: the lessons afterwards and whether it raised
RECURSIVE load_all_lessons(_, _, _)
load_all_lessons(lessons, json_files, idx) ==
    IF idx > Len(json_files)
    THEN [lessons |-> lessons, raised |-> ""]
    ELSE LET loaded == load_lesson(json_files[idx])
         IN  IF loaded.raised # ""
             THEN [lessons |-> lessons, raised |-> loaded.raised]
             ELSE load_all_lessons(
                      [l \in DOMAIN lessons \ {loaded.lesson.id} |-> lessons[l]]
                          @@ (loaded.lesson.id :> loaded.lesson),
                      json_files, idx + 1)

\* CurriculumIngestion.get_lesson: <<>> for None
get_lesson(ingestion, lesson_id) ==
    IF lesson_id \in DOMAIN ingestion.lessons
    THEN ingestion.lessons[lesson_id] ELSE <<>>

\* the lessons the backend holds after its module load
Curriculum == "L1" :> ValidLesson("L1", "Valid Test Lesson")
(***************************************************************************)
(* Calls and their results                                                 *)
(***************************************************************************)
\* record of the most recent call: its arguments and what it returned
NoCall == [op |-> "none"]

\* student ids; "s1" with lesson "L1" and "s1_L1" without lesson share a key
Students == {"s1", "s1_L1"}

\* lesson ids of the curriculum
Lessons == {"L1"}

\* values passed as current_agent / agent_type: the AgentType values, a
\* differently-cased one and an unknown one
AgentInputs == Personas \cup {"SEED", "guru"}

\* contexts handed directly to AgentTransitionRule.should_transition
RuleContexts ==
    {[AgentChainContext("s1", None, 1) EXCEPT
          !.agent_insights = ins, !.unresolved_questions = uq] :
        ins \in {<<>>} \cup
                {(p :> [i \in 1..n |-> [response_length |-> 186]]) :
                     p \in {"seed", "tree"}, n \in 2..MaxInsights},
        uq \in {<<>>, <<"What is dharma?">>}}

Init ==
    /\ active_chains = <<>>
    /\ active_agents = <<>>
    /\ lesson_flow_managers = <<>>
    /\ requests = <<>>
    /\ curriculum_ingestion = [lessons |-> Curriculum]
    /\ lastCall = NoCall

\* rule.should_transition(user_input, context) on a rule of the table
RuleShouldTransition(i, user_input, context) ==
    /\ lastCall' = [op |-> "rule.should_transition",
                    rule |-> i,
                    user_input |-> user_input,
                    context |-> context,
                    result |-> rule_should_transition(transition_rules[i],
                                                      user_input, context)]
    /\ UNCHANGED <<active_chains, active_agents, lesson_flow_managers, requests, curriculum_ingestion>>

\* agent_chain_manager.suggest_agent_transition(current_agent, user_input,
\* student_id, lesson_id): the context is fetched or created first, then
\* AgentType(current_agent) raises ValueError for an unknown value
SuggestAgentTransition(current_agent, user_input, student_id, lesson_id) ==
    LET chains == get_or_create_chain(active_chains, student_id, lesson_id)
        context == chains[chain_key(student_id, lesson_id)]
    IN  /\ active_chains' = chains
        /\ lastCall' =
               IF current_agent \in Personas
               THEN [op |-> "suggest_agent_transition",
                     current_agent |-> current_agent,
                     user_input |-> user_input,
                     student_id |-> student_id,
                     lesson_id |-> lesson_id,
                     outcome |-> "ok",
                     result |-> suggest_agent_transition(current_agent,
                                                         user_input, context)]
               ELSE [op |-> "suggest_agent_transition",
                     current_agent |-> current_agent,
                     user_input |-> user_input,
                     student_id |-> student_id,
                     lesson_id |-> lesson_id,
                     outcome |-> "ValueError"]
        /\ UNCHANGED <<active_agents, lesson_flow_managers, requests, curriculum_ingestion>>

\* the conversation_context arguments of route_to_best_agent: the {} of the
\* tests and a dict with entries
RouteContexts == {<<>>, [current_agent |-> "sky", total_interactions |-> 3]}

\* route_to_best_agent that answers with the result of the routing call made
\* just before
RouteToBestAgent_sticky(student_message, conversation_context) ==
    /\ lastCall' = [op |-> "route_to_best_agent",
                    student_message |-> student_message,
                    conversation_context |-> conversation_context,
                    result |-> IF lastCall.op = "route_to_best_agent"
                               THEN lastCall.result
                               ELSE route_to_best_agent(student_message,
                                                        conversation_context)]
    /\ UNCHANGED <<active_chains, active_agents, lesson_flow_managers, requests, curriculum_ingestion>>

\* agent_chain_manager.route_to_best_agent(student_message, conversation_context)
RouteToBestAgent(student_message, conversation_context) ==
    /\ lastCall' = [op |-> "route_to_best_agent",
                    student_message |-> student_message,
                    conversation_context |-> conversation_context,
                    result |-> route_to_best_agent(student_message,
                                                   conversation_context)]
    /\ UNCHANGED <<active_chains, active_agents, lesson_flow_managers, requests, curriculum_ingestion>>

\* chain_manager.should_transition(current_agent, student_message,
\* agent_response, conversation_context), called as the production tests do
ShouldTransition(current_agent, student_message) ==
    /\ lastCall' = [op |-> "should_transition",
                    current_agent |-> current_agent,
                    student_message |-> student_message,
                    result |-> should_transition(current_agent, student_message,
                                                 "Test response", <<>>)]
    /\ UNCHANGED <<active_chains, active_agents, lesson_flow_managers, requests, curriculum_ingestion>>

\* the number of turns stored in the contexts of `keys`
RECURSIVE TotalTurns(_, _)
TotalTurns(chains, keys) ==
    IF keys = {} THEN 0
    ELSE LET k == CHOOSE k \in keys : TRUE
         IN  Len(chains[k].conversation_history) + TotalTurns(chains, keys \ {k})

\* agent_chain_manager.record_agent_interaction(...) with an insight of the
\* form the chat endpoint passes
RecordAgentInteraction(agent_type, user_input, agent_response, student_id, lesson_id) ==
    /\ TotalTurns(active_chains, DOMAIN active_chains) < MaxRecorded
    /\ active_chains' =
           record_agent_interaction(active_chains, agent_type, user_input,
               agent_response, student_id, lesson_id,
               [response_length |-> StrLen(agent_response)])
    /\ lastCall' = [op |-> "record_agent_interaction",
                    agent_type |-> agent_type,
                    student_id |-> student_id,
                    lesson_id |-> lesson_id]
    /\ UNCHANGED <<active_agents, lesson_flow_managers, requests, curriculum_ingestion>>

(***************************************************************************)
(* SpecRule: the two pure decision functions applied to bounded inputs     *)
(***************************************************************************)
NextRule ==
    \/ \E i \in 1..Len(transition_rules), m \in Messages, c \in RuleContexts :
           RuleShouldTransition(i, m, c)
    \/ \E m \in Messages, c \in RouteContexts : RouteToBestAgent(m, c)
    \/ \E a \in AgentInputs, m \in Messages \cup TransitionMessages :
           ShouldTransition(a, m)

SpecRule == Init /\ [][NextRule]_vars

(***************************************************************************)
(* SpecPolicy: AgentChainManager used as a library: turns are recorded and *)
(* transitions are suggested for one key                                   *)
(***************************************************************************)
NextPolicy ==
    \/ \E a \in AgentInputs, m \in Messages :
           SuggestAgentTransition(a, m, "s1", None)
    \/ \E a \in Personas :
           RecordAgentInteraction(a, M_thanks, <<"fallback:sky">>, "s1", None)
    \/ \E m \in ScenarioMessages \cup {M_namaste}, c \in RouteContexts :
           RouteToBestAgent(m, c)

SpecPolicy == Init /\ [][NextPolicy]_vars


(***************************************************************************)
(* SpecHistory: one chain context with a longer conversation history:      *)
(* turns are recorded, transitions are suggested with their handoff        *)
(* payload, and the context of a persona is read                           *)
(***************************************************************************)
\* conversation_history[-5:] replaced by the whole history
get_context_for_agent_whole_history(context, agent_type) ==
    [student_id |-> context.student_id,
     lesson_id |-> context.lesson_id,
     chain_id |-> context.chain_id,
     conversation_history |-> context.conversation_history,
     other_agent_insights |->
         [k \in DOMAIN context.agent_insights \ {agent_type} |->
              context.agent_insights[k]],
     learning_progress |-> context.learning_progress,
     student_preferences |-> context.student_preferences,
     unresolved_questions |-> context.unresolved_questions,
     concepts_covered |-> context.key_concepts_covered,
     emotional_state |-> context.emotional_state,
     engagement_level |-> context.engagement_level]

\* AgentChainContext.get_context_for_agent
get_context_for_agent(context, agent_type) ==
    [student_id |-> context.student_id,
     lesson_id |-> context.lesson_id,
     chain_id |-> context.chain_id,
     conversation_history |-> LastN(context.conversation_history, 5),
     other_agent_insights |->
         [k \in DOMAIN context.agent_insights \ {agent_type} |->
              context.agent_insights[k]],
     learning_progress |-> context.learning_progress,
     student_preferences |-> context.student_preferences,
     unresolved_questions |-> context.unresolved_questions,
     concepts_covered |-> context.key_concepts_covered,
     emotional_state |-> context.emotional_state,
     engagement_level |-> context.engagement_level]

\* record_agent_interaction on the chain of student s1, up to MaxHistory turns
RecordInHistory(agent_type, user_input, agent_response) ==
    /\ TotalTurns(active_chains, DOMAIN active_chains) < MaxHistory
    /\ active_chains' =
           record_agent_interaction(active_chains, agent_type, user_input,
               agent_response, "s1", None,
               [response_length |-> StrLen(agent_response)])
    /\ lastCall' = [op |-> "record_agent_interaction",
                    agent_type |-> agent_type,
                    student_id |-> "s1",
                    lesson_id |-> None]
    /\ UNCHANGED <<active_agents, lesson_flow_managers, requests, curriculum_ingestion>>

\* get_or_create_chain(student_id, lesson_id).get_context_for_agent(agent_type),
\* as the chat endpoint builds its chain_context
GetContextForAgent(agent_type, student_id, lesson_id) ==
    LET chains == get_or_create_chain(active_chains, student_id, lesson_id)
    IN  /\ active_chains' = chains
        /\ lastCall' = [op |-> "get_context_for_agent",
                        agent_type |-> agent_type,
                        student_id |-> student_id,
                        lesson_id |-> lesson_id,
                        result |-> get_context_for_agent(
                                       chains[chain_key(student_id, lesson_id)],
                                       agent_type)]
        /\ UNCHANGED <<active_agents, lesson_flow_managers, requests, curriculum_ingestion>>

\* agent_chain_manager.get_chain_summary(student_id, lesson_id)
GetChainSummary(student_id, lesson_id) ==
    LET chains == get_or_create_chain(active_chains, student_id, lesson_id)
    IN  /\ active_chains' = chains
        /\ lastCall' = [op |-> "get_chain_summary",
                        student_id |-> student_id,
                        lesson_id |-> lesson_id,
                        result |-> get_chain_summary(
                                       chains[chain_key(student_id, lesson_id)])]
        /\ UNCHANGED <<active_agents, lesson_flow_managers, requests, curriculum_ingestion>>

\* the turns of the history: a seed turn after a message of thanks and a
\* tree turn after a two-character message
NextHistory ==
    \/ RecordInHistory("seed", M_thanks, <<"fallback:seed">>)
    \/ RecordInHistory("tree", M_hi, <<"fallback:tree">>)
    \/ \E a \in Personas, m \in {M_dense_all, M_soul} :
           SuggestAgentTransition(a, m, "s1", None)
    \/ \E a \in Personas \cup {"guru"} : GetContextForAgent(a, "s1", None)
    \/ GetChainSummary("s1", None)

SpecHistory == Init /\ [][NextHistory]_vars
(***************************************************************************)
(* agents/base_agent.py and agents/memory_system.py                        *)
(***************************************************************************)
\* str.lower() of the agent_type values that are passed
LowerName(agent_type) ==
    CASE agent_type = "SEED" -> "seed"
      [] OTHER -> agent_type

\* SeedAgent / TreeAgent / SkyAgent._get_fallback_response: the fixed fallback
\* literal of the persona, one symbol
_get_fallback_response(persona) ==
    CASE persona = "seed" -> <<"fallback:seed">>
      [] persona = "tree" -> <<"fallback:tree">>
      [] persona = "sky" -> <<"fallback:sky">>

\* BaseAgent.__init__ with AgentMemorySystem._initialize: an empty
\* ConversationBufferWindowMemory and the default profile
NewAgent(persona) ==
    [agent_type |-> persona, conversation_memory |-> <<>>, total_interactions |-> 0]

\* memory_window of AgentMemorySystem.__init__: the window returns the last
\* k exchanges, two messages each
memory_window == 20

\* absent dict entries, and the values a caller context holds
Absent == [type |-> "absent"]

\* context.get('current_lesson') given as a lesson id, as the chaining tests do
LessonAsStr == [type |-> "str", value |-> "L1"]

\* the lesson dict of the curriculum: ingestion requires a title
LessonDict(lesson_id) ==
    [type |-> "dict",
     title |-> CASE lesson_id = "L1" -> "Valid Test Lesson"
                 [] OTHER -> ""]

\* get_personalized_context handing on the last three messages only
last_few_messages_three(agent) ==
    LastN(LastN(agent.conversation_memory, 2 * memory_window), 3)

\* AgentMemorySystem.get_conversation_history and the last_few_messages of
\* get_personalized_context
last_few_messages(agent) ==
    LET recent_conversation == LastN(agent.conversation_memory, 2 * memory_window)
    IN  IF Len(recent_conversation) > 4 THEN LastN(recent_conversation, 4)
        ELSE recent_conversation

\* full_context['recent_conversation'] of BaseAgent.respond: the caller's
\* entry wins over the one of the memory
full_recent_conversation(agent, context) ==
    IF context.recent_conversation.type = "list"
    THEN context.recent_conversation.items
    ELSE last_few_messages(agent)

\* BaseAgent._should_use_fallback without the test of the input length
_should_use_fallback_repetition_only(user_input, recent_conversation) ==
    /\ Len(recent_conversation) >= 4
    /\ LET last4 == LastN(recent_conversation, 4)
           recent_responses == {last4[i].content :
                                   i \in {j \in 1..4 : last4[j].has_content}}
       IN  Cardinality(recent_responses) <= 2

\* BaseAgent._should_use_fallback
_should_use_fallback(user_input, recent_conversation) ==
    \/ /\ Len(recent_conversation) >= 4
       /\ LET last4 == LastN(recent_conversation, 4)
              recent_responses == {last4[i].content :
                                      i \in {j \in 1..4 : last4[j].has_content}}
          IN  Cardinality(recent_responses) <= 2
    \/ StrLen(Strip(user_input)) < 3

\* BaseAgent._is_response_valid without the test for a repeated input
_is_response_valid_length_only(response, user_input) ==
    StrLen(Strip(response)) >= 10

\* BaseAgent._is_response_valid
_is_response_valid(response, user_input) ==
    /\ StrLen(Strip(response)) >= 10
    /\ ~(/\ Contains(Lower(response), Lower(user_input))
         /\ StrLen(response) < StrLen(user_input) * 2)

\* BaseAgent._get_contextual_fallback without the lesson pointer
_get_contextual_fallback_plain(persona, current_lesson) ==
    _get_fallback_response(persona)

\* BaseAgent._get_contextual_fallback for a current_lesson that is absent or
\* a dict
_get_contextual_fallback(persona, current_lesson) ==
    LET lesson_title == IF current_lesson.type = "dict" THEN current_lesson.title
                        ELSE ""
    IN  IF lesson_title # ""
        THEN _get_fallback_response(persona)
                 \o <<" Let's focus on our current lesson: '", lesson_title,
                      "'. What specific aspect would you like to explore?">>
        ELSE _get_fallback_response(persona)

\* AgentMemorySystem.add_to_conversation: save_context appends the human and
\* the AI message, add_memory (with a vector store that takes the document)
\* counts the interaction
add_to_conversation(agent, human_message, ai_message) ==
    [agent EXCEPT
        !.conversation_memory = @ \o <<[has_content |-> TRUE, content |-> human_message],
                                       [has_content |-> TRUE, content |-> ai_message]>>,
        !.total_interactions = @ + 1]

\* BaseAgent.respond: the text returned, the agent afterwards, the branch
\* taken and whether self.llm was called.  llm is what the generator does
\* when it is invoked: "raise" or the text it returns.  A current_lesson that
\* is a str has no .get, the AttributeError is caught by the except clause of
\* respond
respond(agent, user_input, context, llm) ==
    LET persona == agent.agent_type
        recent_conversation == full_recent_conversation(agent, context)
        lesson_is_str == context.current_lesson.type = "str"
        response_text == IF llm = "raise" THEN <<>> ELSE Strip(llm)
    IN  IF _should_use_fallback(user_input, recent_conversation)
        THEN IF lesson_is_str
             THEN [response |-> _get_fallback_response(persona), agent |-> agent,
                   branch |-> "short-circuit, exception", llm_invoked |-> FALSE]
             ELSE [response |-> _get_contextual_fallback(persona, context.current_lesson),
                   agent |-> agent, branch |-> "short-circuit",
                   llm_invoked |-> FALSE]
        ELSE IF lesson_is_str
        THEN [response |-> _get_fallback_response(persona), agent |-> agent,
              branch |-> "prompt exception", llm_invoked |-> FALSE]
        ELSE IF llm = "raise"
        THEN [response |-> _get_fallback_response(persona), agent |-> agent,
              branch |-> "generator exception", llm_invoked |-> TRUE]
        ELSE IF _is_response_valid(response_text, user_input)
        THEN [response |-> response_text,
              agent |-> add_to_conversation(agent, user_input, response_text),
              branch |-> "return", llm_invoked |-> TRUE]
        ELSE [response |-> _get_contextual_fallback(persona, context.current_lesson),
              agent |-> agent, branch |-> "invalid", llm_invoked |-> TRUE]

(***************************************************************************)
(* curriculum/lesson_flow.py                                               *)
(***************************************************************************)
\* LessonFlowManager._load_progress without a progress file
NewProgress == [lessons |-> <<>>, current_lesson |-> None]

\* LessonFlowManager.start_lesson: the student_progress afterwards
start_lesson(progress, lesson_id) ==
    LET old == IF lesson_id \in DOMAIN progress.lessons
               THEN progress.lessons[lesson_id]
               ELSE [state |-> "not_started",
                     attempts |-> 0,
                     quiz_scores |-> <<>>,
                     agent_interactions |-> [seed |-> 0, tree |-> 0, sky |-> 0],
                     query_paths_used |-> <<>>,
                     mastery_indicators |-> <<>>]
        started == [old EXCEPT !.state = "in_progress", !.attempts = @ + 1]
        rest == [l \in DOMAIN progress.lessons \ {lesson_id} |-> progress.lessons[l]]
    IN  [lessons |-> rest @@ (lesson_id :> started),
         current_lesson |-> lesson_id]

(***************************************************************************)
(* backend/main.py                                                         *)
(***************************************************************************)
\* lesson_flow_managers after `if student_id not in lesson_flow_managers: ...`
with_flow_manager(managers, student_id) ==
    IF student_id \in DOMAIN managers THEN managers
    ELSE managers @@ (student_id :> NewProgress)

\* agent_key of chat_with_agent
agent_key(agent_type, student_id) == agent_type \o "_" \o student_id

\* the request contexts of the chat calls: none, the lesson id as the chaining
\* tests send it, and a recent_conversation of four JSON strings
ChatContexts ==
    {[current_lesson |-> Absent, recent_conversation |-> Absent],
     [current_lesson |-> LessonAsStr, recent_conversation |-> Absent],
     [current_lesson |-> Absent,
      recent_conversation |->
          [type |-> "list",
           items |-> [i \in 1..4 |-> [has_content |-> FALSE, content |-> <<>>]]]]}

\* what the text generator does when invoked
LlmOutcomes == {"raise", G_great, G_echo, G_short}

\* chat_with_agent: the three stores after the request and the answer to it
chat_with_agent(chains0, agents0, managers0, agent_type, student_id, message, context, llm) ==
    LET managers == with_flow_manager(managers0, student_id)
        known == LowerName(agent_type) \in Personas
        agents == IF agent_key(agent_type, student_id) \in DOMAIN agents0
                  THEN agents0
                  ELSE agents0 @@ (agent_key(agent_type, student_id) :>
                                       NewAgent(LowerName(agent_type)))
        current_lesson_id == managers[student_id].current_lesson
        enhanced_context ==
            IF current_lesson_id # None
            THEN [context EXCEPT !.current_lesson = LessonDict(current_lesson_id)]
            ELSE context
        chains == get_or_create_chain(chains0, student_id, current_lesson_id)
        key == chain_key(student_id, current_lesson_id)
        failed == [op |-> "chat", agent_type |-> agent_type,
                   student_id |-> student_id, message |-> message,
                   status |-> 500]
    IN  IF ~known
        THEN \* create_agent raises ValueError: HTTP 500
             [active_chains |-> chains0, active_agents |-> agents0,
              lesson_flow_managers |-> managers, call |-> failed]
        ELSE IF agent_type \notin Personas
        THEN \* suggest_agent_transition has fetched or created the context
             \* when AgentType(current_agent) raises ValueError: HTTP 500
             [active_chains |-> chains, active_agents |-> agents,
              lesson_flow_managers |-> managers, call |-> failed]
        ELSE LET r == respond(agents[agent_key(agent_type, student_id)],
                              message, enhanced_context, llm)
                 recorded ==
                     record_agent_interaction(chains, agent_type, message,
                         r.response, student_id, current_lesson_id,
                         [response_length |-> StrLen(r.response)])
             IN  [active_chains |-> recorded,
                  active_agents |->
                      [agents EXCEPT ![agent_key(agent_type, student_id)] = r.agent],
                  lesson_flow_managers |-> managers,
                  call |->
                      [op |-> "chat", agent_type |-> agent_type,
                       student_id |-> student_id, message |-> message,
                       status |-> 200,
                       lesson_id |-> current_lesson_id,
                       request_context |-> context,
                       llm |-> llm,
                       branch |-> r.branch,
                       llm_invoked |-> r.llm_invoked,
                       response |-> r.response,
                       transition_suggestion |->
                           suggest_agent_transition(agent_type, message,
                                                    chains[key]),
                       chain_summary |-> get_chain_summary(recorded[key])]]

\* POST /api/agents/chat, received and handled
ChatWithAgent(agent_type, student_id, message, context, llm) ==
    /\ TotalTurns(active_chains, DOMAIN active_chains) < MaxTurns
    /\ \E after \in {chat_with_agent(active_chains, active_agents,
                                     lesson_flow_managers, agent_type,
                                     student_id, message, context, llm)} :
           /\ active_chains' = after.active_chains
           /\ active_agents' = after.active_agents
           /\ lesson_flow_managers' = after.lesson_flow_managers
           /\ lastCall' = after.call
    /\ UNCHANGED <<requests, curriculum_ingestion>>

\* GET /api/agents/chain-suggestion/{student_id} that stores the request as a
\* turn of the context
GetAgentChainSuggestion_recording(student_id, current_agent, user_input, lesson_id) ==
    LET chains == get_or_create_chain(active_chains, student_id, lesson_id)
        context == chains[chain_key(student_id, lesson_id)]
    IN  /\ active_chains' =
               [chains EXCEPT ![chain_key(student_id, lesson_id)].conversation_history =
                    Append(@, [agent |-> current_agent, user_input |-> user_input,
                               agent_response |-> <<>>])]
        /\ lastCall' =
               IF current_agent \in Personas
               THEN [op |-> "chain-suggestion",
                     student_id |-> student_id,
                     current_agent |-> current_agent,
                     user_input |-> user_input,
                     lesson_id |-> lesson_id,
                     first_access |->
                         chain_key(student_id, lesson_id) \notin DOMAIN active_chains,
                     status |-> 200,
                     suggestion |-> suggest_agent_transition(current_agent,
                                                             user_input, context),
                     chain_summary |-> get_chain_summary(context)]
               ELSE [op |-> "chain-suggestion",
                     student_id |-> student_id,
                     current_agent |-> current_agent,
                     user_input |-> user_input,
                     lesson_id |-> lesson_id,
                     status |-> 500]
        /\ UNCHANGED <<active_agents, lesson_flow_managers, requests, curriculum_ingestion>>

\* GET /api/agents/chain-suggestion/{student_id}
GetAgentChainSuggestion(student_id, current_agent, user_input, lesson_id) ==
    LET chains == get_or_create_chain(active_chains, student_id, lesson_id)
        context == chains[chain_key(student_id, lesson_id)]
    IN  /\ active_chains' = chains
        /\ lastCall' =
               IF current_agent \in Personas
               THEN [op |-> "chain-suggestion",
                     student_id |-> student_id,
                     current_agent |-> current_agent,
                     user_input |-> user_input,
                     lesson_id |-> lesson_id,
                     first_access |->
                         chain_key(student_id, lesson_id) \notin DOMAIN active_chains,
                     status |-> 200,
                     suggestion |-> suggest_agent_transition(current_agent,
                                                             user_input, context),
                     chain_summary |-> get_chain_summary(context)]
               ELSE [op |-> "chain-suggestion",
                     student_id |-> student_id,
                     current_agent |-> current_agent,
                     user_input |-> user_input,
                     lesson_id |-> lesson_id,
                     status |-> 500]
        /\ UNCHANGED <<active_agents, lesson_flow_managers, requests, curriculum_ingestion>>

\* GET /api/agents/chain-summary/{student_id}
GetAgentChainSummary(student_id, lesson_id) ==
    LET chains == get_or_create_chain(active_chains, student_id, lesson_id)
    IN  /\ active_chains' = chains
        /\ lastCall' = [op |-> "chain-summary",
                        student_id |-> student_id,
                        lesson_id |-> lesson_id,
                        status |-> 200,
                        summary |-> get_chain_summary(
                                        chains[chain_key(student_id, lesson_id)])]
        /\ UNCHANGED <<active_agents, lesson_flow_managers, requests, curriculum_ingestion>>

\* POST /api/lessons/start
StartLesson(student_id, lesson_id) ==
    LET managers == with_flow_manager(lesson_flow_managers, student_id)
    IN  IF lesson_id \notin Lessons
        THEN \* curriculum_ingestion.get_lesson returns None: HTTP 404
             /\ lesson_flow_managers' = managers
             /\ lastCall' = [op |-> "start_lesson", student_id |-> student_id,
                             lesson_id |-> lesson_id, status |-> 404]
             /\ UNCHANGED <<active_chains, active_agents, requests, curriculum_ingestion>>
        ELSE /\ lesson_id \in DOMAIN managers[student_id].lessons
                    => managers[student_id].lessons[lesson_id].attempts < MaxAttempts
             /\ lesson_flow_managers' =
                    [managers EXCEPT ![student_id] = start_lesson(@, lesson_id)]
             /\ lastCall' = [op |-> "start_lesson", student_id |-> student_id,
                             lesson_id |-> lesson_id, status |-> 200]
             /\ UNCHANGED <<active_chains, active_agents, requests, curriculum_ingestion>>

(***************************************************************************)
(* Spec: the endpoints of the backend                                      *)
(***************************************************************************)
\* agent_type values of the chat requests
ChatAgents == {"seed", "SEED", "guru"}

\* messages of the chat requests: a two-character one and an ordinary one
ChatMessages == {M_hi, M_thanks}

\* messages of the chain-suggestion requests: one that clears no threshold
\* and one that holds every trigger
SuggestionMessages == {M_soul, M_dense_all}

Next ==
    \/ \E a \in ChatAgents, m \in ChatMessages, c \in ChatContexts, g \in LlmOutcomes :
           ChatWithAgent(a, "s1", m, c, g)
    \/ \E s \in Students, a \in {"seed", "guru"}, m \in SuggestionMessages :
           GetAgentChainSuggestion(s, a, m, None)
    \/ \E l \in Lessons \cup {None} : GetAgentChainSummary("s1", l)
    \/ \E s \in {"s1"}, l \in Lessons \cup {"L9"} : StartLesson(s, l)

Spec == Init /\ [][Next]_vars

(***************************************************************************)
(* SpecLoop: chat requests wait for the event loop.  chat_with_agent is an *)
(* `async def` without any await, so the loop runs one accepted request    *)
(* from its first statement to its last before it takes the next one       *)
(***************************************************************************)
\* agent_type, message and generator outcome of the waiting requests
LoopAgents == {"seed", "tree"}

LoopMessages == {M_thanks, M_dense_all}

LoopOutcomes == {"raise", G_great}

\* the requests that wait for the event loop
Pending == {i \in DOMAIN requests : requests[i].state = "pending"}

\* the requests the event loop has run
Done == {i \in DOMAIN requests : requests[i].state = "done"}

\* the server accepts a chat request of student s1 while others may wait
AcceptChat(agent_type, message, llm) ==
    /\ Len(requests) < MaxRequests
    /\ requests' = Append(requests,
                          [agent_type |-> agent_type,
                           student_id |-> "s1",
                           message |-> message,
                           llm |-> llm,
                           waiting_at_accept |-> Cardinality(Pending),
                           state |-> "pending"])
    /\ UNCHANGED <<active_chains, active_agents, lesson_flow_managers, curriculum_ingestion, lastCall>>

\* the event loop runs chat_with_agent for one of the waiting requests
RunChat(i) ==
    /\ i \in Pending
    /\ \E after \in {chat_with_agent(active_chains, active_agents,
                                     lesson_flow_managers,
                                     requests[i].agent_type,
                                     requests[i].student_id,
                                     requests[i].message,
                                     [current_lesson |-> Absent,
                                      recent_conversation |-> Absent],
                                     requests[i].llm)} :
           /\ active_chains' = after.active_chains
           /\ active_agents' = after.active_agents
           /\ lesson_flow_managers' = after.lesson_flow_managers
           /\ lastCall' = after.call
    /\ requests' = [requests EXCEPT ![i].state = "done"]
    /\ UNCHANGED curriculum_ingestion

NextLoop ==
    \/ \E a \in LoopAgents, m \in LoopMessages, g \in LoopOutcomes :
           AcceptChat(a, m, g)
    \/ \E i \in 1..MaxRequests : RunChat(i)

SpecLoop == Init /\ [][NextLoop]_vars
(***************************************************************************)
(* Keywords and queries of the lesson flow (curriculum/lesson_flow)        *)
(***************************************************************************)
K_use == <<"u","s","e">>
K_show == <<"s","h","o","w">>
K_guide == <<"g","u","i","d","e">>
K_technique == <<"t","e","c","h","n","i","q","u","e">>
K_method == <<"m","e","t","h","o","d">>
K_way == <<"w","a","y">>
K_start == <<"s","t","a","r","t">>
K_begin == <<"b","e","g","i","n">>
K_reason == <<"r","e","a","s","o","n">>
K_idea == <<"i","d","e","a">>
K_knowledge == <<"k","n","o","w","l","e","d","g","e">>
K_wisdom == <<"w","i","s","d","o","m">>
K_connection == <<"c","o","n","n","e","c","t","i","o","n">>
K_relationship == <<"r","e","l","a","t","i","o","n","s","h","i","p">>
K_framework == <<"f","r","a","m","e","w","o","r","k">>
K_spirit == <<"s","p","i","r","i","t">>
K_think == <<"t","h","i","n","k">>
K_believe == <<"b","e","l","i","e","v","e">>
K_contemplate == <<"c","o","n","t","e","m","p","l","a","t","e">>
K_meditate == <<"m","e","d","i","t","a","t","e">>
K_inner == <<"i","n","n","e","r">>
K_philosophical == <<"p","h","i","l","o","s","o","p","h","i","c","a","l">>

practical_keywords ==
    [primary |-> <<K_how, K_practice, K_do, K_steps, K_exercise, K_try, K_apply, K_use, K_implement, K_show, K_guide>>,
     secondary |-> <<K_daily, K_routine, K_habit, K_action, K_technique, K_method, K_way, K_start, K_begin>>]

conceptual_keywords ==
    [primary |-> <<K_why, K_what, K_explain, K_understand, K_concept, K_meaning, K_principle, K_because>>,
     secondary |-> <<K_reason, K_theory, K_idea, K_knowledge, K_wisdom, K_connection, K_relationship, K_framework>>]

reflective_keywords ==
    [primary |-> <<K_soul, K_spirit, K_divine, K_deeper, K_purpose, K_meaning, K_spiritual, K_consciousness>>,
     secondary |-> <<K_feel, K_think, K_believe, K_reflect, K_contemplate, K_meditate, K_inner, K_philosophical>>]

\* ""
Q_empty ==
    <<>>

\* "Tell me about wisdom"
Q_wisdom ==
    <<"T","e","l","l"," ","m","e"," ","a","b","o","u","t"," ","w","i","s","d","o","m">>

\* "a"
Q_one ==
    <<"a">>

\* "asdfghjkl qwertyuiop"
Q_nonsense ==
    <<"a","s","d","f","g","h","j","k","l"," ","q","w","e","r","t","y","u","i","o","p">>

\* "What is the meaning of life, the universe, and everything according to the ancient wisdom traditions and how does this relate to modern quantum physics and consciousness studies?"
Q_long ==
    <<"W","h","a","t"," ","i","s"," ","t","h","e"," ","m","e","a","n","i","n","g"," ","o","f",
      " ","l","i","f","e",","," ","t","h","e"," ","u","n","i","v","e","r","s","e",","," ","a",
      "n","d"," ","e","v","e","r","y","t","h","i","n","g"," ","a","c","c","o","r","d","i","n",
      "g"," ","t","o"," ","t","h","e"," ","a","n","c","i","e","n","t"," ","w","i","s","d","o",
      "m"," ","t","r","a","d","i","t","i","o","n","s"," ","a","n","d"," ","h","o","w"," ","d",
      "o","e","s"," ","t","h","i","s"," ","r","e","l","a","t","e"," ","t","o"," ","m","o","d",
      "e","r","n"," ","q","u","a","n","t","u","m"," ","p","h","y","s","i","c","s"," ","a","n",
      "d"," ","c","o","n","s","c","i","o","u","s","n","e","s","s"," ","s","t","u","d","i","e",
      "s","?">>

\* "  	"
Q_blank ==
    <<" "," ","	">>

\* "Why does the soul reflect?"
Q_why_soul ==
    <<"W","h","y"," ","d","o","e","s"," ","t","h","e"," ","s","o","u","l"," ","r","e","f","l",
      "e","c","t","?">>

(***************************************************************************)
(* SpecLesson: the lesson endpoints of one student (curriculum/lesson_flow) *)
(***************************************************************************)
\* LessonFlowManager.record_interaction raises KeyError: the lesson is in the
\* progress and agent_interactions has no count for agent_type
record_interaction_KeyError(progress, lesson_id, agent_type) ==
    /\ lesson_id \in DOMAIN progress.lessons
    /\ agent_type \notin DOMAIN progress.lessons[lesson_id].agent_interactions

\* LessonFlowManager.record_interaction when it does not raise: the
\* student_progress afterwards.  quality_score is in tenths, 10 is 1.0
record_interaction(progress, lesson_id, agent_type, query_path, agent_response, quality_score) ==
    IF lesson_id \notin DOMAIN progress.lessons
    THEN progress
    ELSE LET old == progress.lessons[lesson_id]
             counted == [old EXCEPT
                            !.agent_interactions[agent_type] = @ + 1,
                            !.query_paths_used =
                                IF \E i \in 1..Len(@) : @[i] = query_path
                                THEN @ ELSE Append(@, query_path)]
             listed == IF "interactions" \in DOMAIN counted
                       THEN counted
                       ELSE counted @@ [interactions |-> <<>>]
             entry == [agent_type |-> agent_type, query_path |-> query_path,
                       response_length |-> Len(agent_response),
                       quality_score |-> quality_score]
         IN  [progress EXCEPT !.lessons[lesson_id] =
                  [listed EXCEPT !.interactions = LastN(Append(@, entry), 10)]]

\* sum(quiz_scores)
RECURSIVE SumScores(_)
SumScores(scores) ==
    IF scores = <<>> THEN 0 ELSE Head(scores) + SumScores(Tail(scores))

\* complete_lesson clearing current_lesson whatever it names
complete_lesson_always_clears(progress, lesson_id, quiz_score) ==
    LET old == progress.lessons[lesson_id]
        quiz_scores == old.quiz_scores \o quiz_score
        high == /\ quiz_scores # <<>>
                /\ SumScores(quiz_scores) >= 9 * Len(quiz_scores)
        state == IF high /\ Len(old.query_paths_used) >= 2
                 THEN "mastered" ELSE "completed"
    IN  [lessons |-> [progress.lessons EXCEPT
                         ![lesson_id] = [old EXCEPT !.quiz_scores = quiz_scores,
                                                    !.state = state]],
         current_lesson |-> None]

\* LessonFlowManager.complete_lesson for a lesson of student_progress: the
\* student_progress afterwards.  Quiz scores are in tenths, 10 is 1.0;
\* quiz_score is <<>> for None and <<score>> otherwise
complete_lesson(progress, lesson_id, quiz_score) ==
    LET old == progress.lessons[lesson_id]
        quiz_scores == old.quiz_scores \o quiz_score
        \* avg_quiz_score >= 0.9
        high == /\ quiz_scores # <<>>
                /\ SumScores(quiz_scores) >= 9 * Len(quiz_scores)
        state == IF high /\ Len(old.query_paths_used) >= 2
                 THEN "mastered" ELSE "completed"
    IN  [lessons |-> [progress.lessons EXCEPT
                         ![lesson_id] = [old EXCEPT !.quiz_scores = quiz_scores,
                                                    !.state = state]],
         current_lesson |-> IF progress.current_lesson = lesson_id THEN None
                            ELSE progress.current_lesson]

\* POST /api/lessons/start, up to MaxStarts times per lesson
StartLessonFlow(student_id, lesson_id) ==
    LET managers == with_flow_manager(lesson_flow_managers, student_id)
    IN  /\ lesson_id \in Lessons
        /\ lesson_id \in DOMAIN managers[student_id].lessons
               => managers[student_id].lessons[lesson_id].attempts < MaxStarts
        /\ lesson_flow_managers' =
               [managers EXCEPT ![student_id] = start_lesson(@, lesson_id)]
        /\ lastCall' = [op |-> "start_lesson", student_id |-> student_id,
                        lesson_id |-> lesson_id, status |-> 200]
        /\ UNCHANGED <<active_chains, active_agents, requests, curriculum_ingestion>>

\* agent_interactions of a lesson, added up
InteractionCount(lesson_progress) ==
    lesson_progress.agent_interactions["seed"]
        + lesson_progress.agent_interactions["tree"]
        + lesson_progress.agent_interactions["sky"]

\* POST /api/lessons/interact
RecordLessonInteraction(student_id, lesson_id, agent_type, query_path) ==
    IF student_id \notin DOMAIN lesson_flow_managers
    THEN /\ lastCall' = [op |-> "interact", student_id |-> student_id,
                         lesson_id |-> lesson_id, status |-> 404]
         /\ UNCHANGED <<active_chains, active_agents, lesson_flow_managers, requests, curriculum_ingestion>>
    ELSE IF record_interaction_KeyError(lesson_flow_managers[student_id], lesson_id, agent_type)
    THEN /\ lastCall' = [op |-> "interact", student_id |-> student_id,
                         lesson_id |-> lesson_id, status |-> 500]
         /\ UNCHANGED <<active_chains, active_agents, lesson_flow_managers, requests, curriculum_ingestion>>
    ELSE /\ lesson_id \in DOMAIN lesson_flow_managers[student_id].lessons
                => InteractionCount(lesson_flow_managers[student_id].lessons[lesson_id])
                       < MaxInteractions
         /\ lesson_flow_managers' =
                [lesson_flow_managers EXCEPT ![student_id] =
                     record_interaction(@, lesson_id, agent_type, query_path,
                                        "Response recorded", 10)]
         /\ lastCall' = [op |-> "interact", student_id |-> student_id,
                         lesson_id |-> lesson_id, status |-> 200]
         /\ UNCHANGED <<active_chains, active_agents, requests, curriculum_ingestion>>

\* POST /api/lessons/complete
CompleteLesson(student_id, lesson_id, quiz_score) ==
    IF student_id \notin DOMAIN lesson_flow_managers
    THEN /\ lastCall' = [op |-> "complete", student_id |-> student_id,
                         lesson_id |-> lesson_id, status |-> 404]
         /\ UNCHANGED <<active_chains, active_agents, lesson_flow_managers, requests, curriculum_ingestion>>
    ELSE IF lesson_id \notin DOMAIN lesson_flow_managers[student_id].lessons
    THEN \* {"error": "Lesson not found"}
         /\ lastCall' = [op |-> "complete", student_id |-> student_id,
                         lesson_id |-> lesson_id, status |-> 200,
                         error |-> "Lesson not found"]
         /\ UNCHANGED <<active_chains, active_agents, lesson_flow_managers, requests, curriculum_ingestion>>
    ELSE /\ quiz_score # <<>>
                => Len(lesson_flow_managers[student_id].lessons[lesson_id].quiz_scores)
                       < MaxQuizScores
         /\ lesson_flow_managers' =
                [lesson_flow_managers EXCEPT ![student_id] =
                     complete_lesson(@, lesson_id, quiz_score)]
         /\ lastCall' = [op |-> "complete", student_id |-> student_id,
                         lesson_id |-> lesson_id, status |-> 200,
                         final_state |->
                             complete_lesson(lesson_flow_managers[student_id],
                                 lesson_id, quiz_score).lessons[lesson_id].state]
         /\ UNCHANGED <<active_chains, active_agents, requests, curriculum_ingestion>>

\* quiz_score of the completion requests: none, 1.0 and 0.5
QuizScores == {<<>>, <<10>>, <<5>>}

\* agent_type of the interaction requests: two personas and one that
\* agent_interactions does not count
LessonAgents == {"seed", "tree", "quiz"}

\* query_path of the interaction requests
QueryPaths == {"practical", "conceptual"}

NextLesson ==
    \/ \E l \in Lessons : StartLessonFlow("s1", l)
    \/ \E l \in Lessons \cup {"L9"}, a \in LessonAgents, q \in QueryPaths :
           RecordLessonInteraction("s1", l, a, q)
    \/ \E l \in Lessons \cup {"L9"}, s \in QuizScores : CompleteLesson("s1", l, s)

SpecLesson == Init /\ [][NextLesson]_vars
(***************************************************************************)
(* SpecSuggest: the agent suggestion of a lesson (curriculum/lesson_flow)  *)
(***************************************************************************)
\* the keywords of the three keyword dicts of suggest_next_agent
LessonKeywords ==
    UNION {{d[w][i] : i \in 1..Len(d[w])} :
               d \in {practical_keywords, conceptual_keywords, reflective_keywords},
               w \in {"primary", "secondary"}}

\* user_input of the suggestion requests
SuggestQueries == {Q_empty, Q_one, Q_blank, Q_nonsense, Q_wisdom, Q_long, Q_why_soul}

\* user_input.lower().strip()
user_lower == [q \in SuggestQueries |-> Strip(Lower(q))]

\* `keyword in text` for every keyword, tabulated once per query
keywords_in_query ==
    [q \in SuggestQueries |-> {k \in LessonKeywords : Contains(user_lower[q], k)}]

\* LessonFlowManager._calculate_keyword_score on the lower-cased query, in
\* tenths: 1.0 for a primary keyword, 0.5 for a secondary one
_calculate_keyword_score(q, keyword_dict) ==
    10 * Cardinality({i \in 1..Len(keyword_dict.primary) :
                          keyword_dict.primary[i] \in keywords_in_query[q]})
    + 5 * Cardinality({i \in 1..Len(keyword_dict.secondary) :
                           keyword_dict.secondary[i] \in keywords_in_query[q]})

\* LessonFlowManager._get_default_path_for_agent
_get_default_path_for_agent(agent_type) ==
    CASE agent_type = "seed" -> "practical"
      [] agent_type = "tree" -> "conceptual"
      [] agent_type = "sky" -> "reflective"
      [] OTHER -> "conceptual"

\* the bonus for an unused agent and the penalty for an overused one, in
\* tenths; nothing in a lesson without interactions
diversity_adjustment(interactions, agent) ==
    LET total_interactions == interactions["seed"] + interactions["tree"] + interactions["sky"]
        interaction_count == interactions[agent]
    IN  IF total_interactions = 0 THEN 0
        ELSE IF interaction_count = 0 THEN 10
        \* usage_ratio > 0.6
        ELSE IF 10 * interaction_count > 6 * total_interactions THEN -8
        \* usage_ratio > 0.4
        ELSE IF 10 * interaction_count > 4 * total_interactions THEN -4
        ELSE 0

\* "discourage consecutive same agent unless score is very high", in tenths
consecutive_penalty(current_agent, agent, score) ==
    IF current_agent = agent /\ score < 15 THEN -6 ELSE 0

\* min(interactions.items(), key=lambda x: x[1])[0]: the first key, in
\* insertion order, with the least count
least_used_agent(interactions) ==
    IF interactions["seed"] <= interactions["tree"] /\ interactions["seed"] <= interactions["sky"]
    THEN "seed"
    ELSE IF interactions["tree"] <= interactions["sky"] THEN "tree"
    ELSE "sky"

\* LessonFlowManager.suggest_next_agent: (suggested_agent, suggested_path).
\* Scores are in tenths
suggest_next_agent(progress, lesson_id, current_agent, user_input) ==
    LET interactions == IF lesson_id \in DOMAIN progress.lessons
                        THEN progress.lessons[lesson_id].agent_interactions
                        ELSE [seed |-> 0, tree |-> 0, sky |-> 0]
        base == [seed |-> 2 * _calculate_keyword_score(user_input, practical_keywords) + 1,
                 tree |-> 2 * _calculate_keyword_score(user_input, conceptual_keywords) + 2,
                 sky |-> 2 * _calculate_keyword_score(user_input, reflective_keywords) + 1]
        diverse == [a \in Personas |-> base[a] + diversity_adjustment(interactions, a)]
        scores == [a \in Personas |->
                      diverse[a] + consecutive_penalty(current_agent, a, diverse[a])]
    IN  IF Len(user_lower[user_input]) < 3
        THEN <<"tree", "conceptual">>
        ELSE IF \A a \in Personas : scores[a] <= 0
        THEN <<least_used_agent(interactions),
               _get_default_path_for_agent(least_used_agent(interactions))>>
        ELSE LET suggested_agent == MaxKey(scores["seed"], scores["tree"], scores["sky"])
             IN  <<suggested_agent, _get_default_path_for_agent(suggested_agent)>>

\* the suggestions of the consecutive requests that the new request extends:
\* requests of one student with one user_input, the first with current_agent
\* "seed", each later one with the agent suggested before it
suggestion_run(call, student_id, user_input, current_agent, suggested_agent) ==
    IF /\ call.op = "suggest"
       /\ call.student_id = student_id
       /\ call.user_input = user_input
       /\ call.run # <<>>
       /\ call.suggested_agent = current_agent
       /\ ~(current_agent = "seed" /\ Len(call.run) >= MaxSuggestions)
    THEN Append(call.run, suggested_agent)
    ELSE IF current_agent = "seed" THEN <<suggested_agent>>
    ELSE <<>>

\* GET /api/lessons/suggest-agent/{student_id}
SuggestNextAgent(student_id, user_input, current_agent) ==
    LET managers == with_flow_manager(lesson_flow_managers, student_id)
        current_lesson == managers[student_id].current_lesson
    IN  \E suggestion \in {IF current_lesson = None
                           THEN <<"seed", "practical">>
                           ELSE suggest_next_agent(managers[student_id], current_lesson,
                                                   current_agent, user_input)} :
            /\ Len(suggestion_run(lastCall, student_id, user_input, current_agent,
                                  suggestion[1])) <= MaxSuggestions
            /\ lesson_flow_managers' = managers
            /\ lastCall' = [op |-> "suggest", student_id |-> student_id,
                            user_input |-> user_input,
                            current_agent |-> current_agent,
                            current_lesson |-> current_lesson,
                            suggested_agent |-> suggestion[1],
                            suggested_query_path |-> suggestion[2],
                            run |-> suggestion_run(lastCall, student_id, user_input,
                                                   current_agent, suggestion[1])]
            /\ UNCHANGED <<active_chains, active_agents, requests, curriculum_ingestion>>

\* current_agent of the suggestion requests: the personas and an unknown one
SuggestAgents == Personas \cup {"guru"}

NextSuggest ==
    \/ \E l \in Lessons : StartLessonFlow("s1", l)
    \/ \E a \in Personas : RecordLessonInteraction("s1", "L1", a, "practical")
    \/ CompleteLesson("s1", "L1", <<>>)
    \/ \E q \in SuggestQueries, a \in SuggestAgents : SuggestNextAgent("s1", q, a)

SpecSuggest == Init /\ [][NextSuggest]_vars
(***************************************************************************)
(* SpecQuiz: the quiz endpoints (backend/main)                             *)
(***************************************************************************)
\* request.answer of a submission: a JSON number or a JSON string
IntAnswer(n) == [type |-> "int", value |-> n]
StrAnswer(s) == [type |-> "str", value |-> s]

\* request.answer == quiz_question["correct_answer"], the latter a number
AnswerEquals(answer, correct_answer) ==
    answer.type = "int" /\ answer.value = correct_answer

\* len(str(request.answer)) if request.answer else 0, the numbers of the
\* model having one digit
answer_length(answer) ==
    IF answer.type = "int"
    THEN IF answer.value = 0 THEN 0 ELSE 1
    ELSE Len(answer.value)

\* the evaluation of submit_quiz_answer: correct and score (in tenths), or the
\* KeyError of a question without correct_answer
evaluate_answer(quiz_question, answer) ==
    IF quiz_question.type \in {"multiple_choice", "scenario", "true_false"}
    THEN IF "correct_answer" \notin DOMAIN quiz_question
         THEN [raised |-> "KeyError"]
         ELSE LET correct == AnswerEquals(answer, quiz_question.correct_answer)
              IN  [raised |-> "", correct |-> correct,
                   score |-> IF correct THEN 10 ELSE 0]
    ELSE IF quiz_question.type = "reflection"
    THEN IF answer_length(answer) > 50
         THEN [raised |-> "", correct |-> TRUE, score |-> 10]
         ELSE IF answer_length(answer) > 20
         THEN [raised |-> "", correct |-> TRUE, score |-> 7]
         ELSE [raised |-> "", correct |-> FALSE, score |-> 3]
    ELSE [raised |-> "", correct |-> FALSE, score |-> 0]

\* the index of the first question with this id, 0 when there is none
QuestionIndex(quiz_questions, quiz_id) ==
    LET found == {i \in 1..Len(quiz_questions) : quiz_questions[i].id = quiz_id}
    IN  IF found = {} THEN 0 ELSE CHOOSE i \in found : \A j \in found : i <= j

\* f"Score: {score}" for the scores of the evaluation: "Score: 1.0" and so on
ScoreText(score) ==
    CASE score = 10 -> "Score: 1.0"
      [] score = 7 -> "Score: 0.7"
      [] score = 3 -> "Score: 0.3"
      [] OTHER -> "Score: 0.0"

\* submit_quiz_answer: the flow managers afterwards and the response
submit_quiz_answer(ingestion, managers0, student_id, lesson_id, quiz_id, answer) ==
    LET lesson_data == get_lesson(ingestion, lesson_id)
        quiz_questions == IF "quiz" \in DOMAIN lesson_data THEN lesson_data.quiz ELSE <<>>
        current_index == QuestionIndex(quiz_questions, quiz_id)
        request == [op |-> "submit_quiz", student_id |-> student_id,
                    lesson_id |-> lesson_id, quiz_id |-> quiz_id, answer |-> answer]
    IN  IF DOMAIN lesson_data = {}
        THEN [lesson_flow_managers |-> managers0,
              call |-> request @@ [status |-> 404, detail |-> "Lesson not found"]]
        ELSE IF current_index = 0
        THEN [lesson_flow_managers |-> managers0,
              call |-> request @@ [status |-> 404, detail |-> "Quiz question not found"]]
        ELSE LET quiz_question == quiz_questions[current_index]
                 evaluated == evaluate_answer(quiz_question, answer)
                 managers == with_flow_manager(managers0, student_id)
             IN  IF evaluated.raised # ""
                 THEN [lesson_flow_managers |-> managers0,
                       call |-> request @@ [status |-> 500]]
                 ELSE IF record_interaction_KeyError(managers[student_id], lesson_id, "quiz")
                 THEN \* the manager may have been created; the KeyError is HTTP 500
                      [lesson_flow_managers |-> managers,
                       call |-> request @@ [status |-> 500]]
                 ELSE [lesson_flow_managers |->
                           [managers EXCEPT ![student_id] =
                                record_interaction(@, lesson_id, "quiz", "assessment",
                                                   ScoreText(evaluated.score),
                                                   evaluated.score)],
                       call |-> request @@
                           [status |-> 200,
                            correct |-> evaluated.correct,
                            score |-> evaluated.score,
                            explanation |-> IF "explanation" \in DOMAIN quiz_question
                                            THEN quiz_question.explanation ELSE "",
                            agent_feedback |->
                                IF "agent_specific_feedback" \in DOMAIN quiz_question
                                THEN IF "seed" \in DOMAIN quiz_question.agent_specific_feedback
                                     THEN quiz_question.agent_specific_feedback.seed
                                     ELSE ""
                                ELSE None,
                            next_question |->
                                IF current_index + 1 <= Len(quiz_questions)
                                THEN quiz_questions[current_index + 1]
                                ELSE <<>>]]

\* POST /api/quiz/submit
SubmitQuizAnswer(student_id, lesson_id, quiz_id, answer) ==
    \E after \in {submit_quiz_answer(curriculum_ingestion, lesson_flow_managers,
                                     student_id, lesson_id, quiz_id, answer)} :
        /\ lesson_flow_managers' = after.lesson_flow_managers
        /\ lastCall' = after.call
        /\ UNCHANGED <<active_chains, active_agents, requests, curriculum_ingestion>>

\* the interactions of a lesson progress whose agent_type is "quiz"
IsQuizInteraction(interaction) == interaction.agent_type = "quiz"
quiz_interactions(lesson_progress) ==
    IF "interactions" \in DOMAIN lesson_progress
    THEN SelectSeq(lesson_progress.interactions, IsQuizInteraction)
    ELSE <<>>

\* sum(interaction.get("quality_score", 0) for interaction in quiz_interactions)
RECURSIVE SumQuality(_)
SumQuality(interactions) ==
    IF interactions = <<>> THEN 0
    ELSE Head(interactions).quality_score + SumQuality(Tail(interactions))

\* GET /api/quiz/progress/{student_id}/{lesson_id}.  total_score is in tenths;
\* completion_rate is the pair <<attempts, total_questions>> of the quotient,
\* <<0, 1>> for 0.0
GetQuizProgress(student_id, lesson_id) ==
    /\ lastCall' =
           IF student_id \notin DOMAIN lesson_flow_managers
           THEN [op |-> "quiz_progress", student_id |-> student_id,
                 lesson_id |-> lesson_id, status |-> 200,
                 quiz_attempts |-> <<>>, total_score |-> 0,
                 completion_rate |-> <<0, 1>>]
           ELSE LET lessons == lesson_flow_managers[student_id].lessons
                    lesson_progress == IF lesson_id \in DOMAIN lessons
                                       THEN lessons[lesson_id] ELSE <<>>
                    attempts == quiz_interactions(lesson_progress)
                    lesson_data == get_lesson(curriculum_ingestion, lesson_id)
                    total_questions == IF "quiz" \in DOMAIN lesson_data
                                       THEN Len(lesson_data.quiz) ELSE 0
                IN  [op |-> "quiz_progress", student_id |-> student_id,
                     lesson_id |-> lesson_id, status |-> 200,
                     quiz_attempts |-> attempts,
                     total_score |-> SumQuality(attempts),
                     completion_rate |-> IF total_questions > 0
                                         THEN <<Len(attempts), total_questions>>
                                         ELSE <<0, 1>>,
                     total_questions |-> total_questions]
    /\ UNCHANGED <<active_chains, active_agents, lesson_flow_managers, requests, curriculum_ingestion>>

\* safe_q of get_quiz_questions: the question without its correct_answer
safe_q(q) == [k \in DOMAIN q \ {"correct_answer"} |-> q[k]]

\* GET /api/quiz/questions/{lesson_id}
GetQuizQuestions(lesson_id) ==
    /\ lastCall' =
           LET lesson_data == get_lesson(curriculum_ingestion, lesson_id)
           IN  IF DOMAIN lesson_data = {}
               THEN [op |-> "quiz_questions", lesson_id |-> lesson_id, status |-> 404]
               ELSE LET quiz_questions == IF "quiz" \in DOMAIN lesson_data
                                          THEN lesson_data.quiz ELSE <<>>
                        safe_questions == [i \in 1..Len(quiz_questions) |->
                                               safe_q(quiz_questions[i])]
                    IN  [op |-> "quiz_questions", lesson_id |-> lesson_id,
                         status |-> 200, questions |-> safe_questions,
                         total_count |-> Len(safe_questions)]
    /\ UNCHANGED <<active_chains, active_agents, lesson_flow_managers, requests, curriculum_ingestion>>

\* the answers of the submissions: the first option, the third, a short text,
\* a text of 30 characters and one of more than 50
QuizAnswers ==
    {IntAnswer(0), IntAnswer(2), StrAnswer("Test answer"),
     StrAnswer("I learned to set an intention."),
     StrAnswer("This is a thoughtful reflection on the question posed.")}

\* quiz_id of the requests: the questions of the lesson and an unknown one
QuizIds == {"q1", "q2", "q3", "q9"}

\* students of the quiz requests
QuizStudents == {"s1", "s2"}

NextQuiz ==
    \/ \E s \in QuizStudents, l \in Lessons : StartLessonFlow(s, l)
    \/ \E s \in QuizStudents, l \in Lessons \cup {"L9"}, q \in QuizIds, a \in QuizAnswers :
           SubmitQuizAnswer(s, l, q, a)
    \/ \E s \in QuizStudents, l \in Lessons \cup {"L9"} : GetQuizProgress(s, l)
    \/ \E l \in Lessons \cup {"L9"} : GetQuizQuestions(l)
    \/ \E s \in QuizStudents, l \in Lessons : RecordLessonInteraction(s, l, "seed", "practical")

SpecQuiz == Init /\ [][NextQuiz]_vars

(***************************************************************************)
(* SpecIngest: loading a curriculum directory (curriculum/ingestion)       *)
(***************************************************************************)
\* CurriculumIngestion(): no lessons yet
InitIngest ==
    /\ active_chains = <<>>
    /\ active_agents = <<>>
    /\ lesson_flow_managers = <<>>
    /\ requests = <<>>
    /\ curriculum_ingestion = [lessons |-> <<>>]
    /\ lastCall = NoCall

\* what curriculum_path.glob("*.json") can give for a directory that holds
\* some of the lesson files: the files in any order
GlobResults ==
    {json_files \in UNION {[1..n -> LessonFiles] : n \in 0..Cardinality(LessonFiles)} :
        \A i, j \in DOMAIN json_files : i # j => json_files[i] # json_files[j]}

\* ingestion.load_all_lessons() on a directory that exists
LoadAllLessons(json_files) ==
    \E result \in {load_all_lessons(curriculum_ingestion.lessons, json_files, 1)} :
        /\ curriculum_ingestion' = [curriculum_ingestion EXCEPT !.lessons = result.lessons]
        /\ lastCall' = [op |-> "load_all_lessons",
                        json_files |-> [i \in DOMAIN json_files |-> json_files[i].name],
                        lessons_before |-> DOMAIN curriculum_ingestion.lessons,
                        raised |-> result.raised]
        /\ UNCHANGED <<active_chains, active_agents, lesson_flow_managers, requests>>

\* ingestion.load_all_lessons() when curriculum_path does not exist
LoadAllLessonsNoDirectory ==
    /\ lastCall' = [op |-> "load_all_lessons", json_files |-> <<>>,
                    lessons_before |-> DOMAIN curriculum_ingestion.lessons,
                    raised |-> "FileNotFoundError"]
    /\ UNCHANGED <<active_chains, active_agents, lesson_flow_managers, requests, curriculum_ingestion>>

NextIngest ==
    \/ \E json_files \in GlobResults : LoadAllLessons(json_files)
    \/ LoadAllLessonsNoDirectory

SpecIngest == InitIngest /\ [][NextIngest]_vars

(***************************************************************************)
(* SpecAgent: agents made by create_agent and used directly                *)
(***************************************************************************)
\* create_agent(agent_type, student_id), the agent kept under its key
CreateAgent(agent_type, student_id) ==
    /\ agent_key(agent_type, student_id) \notin DOMAIN active_agents
    /\ active_agents' =
           active_agents @@ (agent_key(agent_type, student_id) :> NewAgent(agent_type))
    /\ lastCall' = [op |-> "create_agent", agent |-> agent_key(agent_type, student_id)]
    /\ UNCHANGED <<active_chains, lesson_flow_managers, requests, curriculum_ingestion>>

\* agent.respond(user_input, context) on a created agent
Respond(key, user_input, context, llm) ==
    /\ key \in DOMAIN active_agents
    /\ Len(active_agents[key].conversation_memory) < 2 * MaxExchanges
    /\ \E r \in {respond(active_agents[key], user_input, context, llm)} :
           /\ active_agents' = [active_agents EXCEPT ![key] = r.agent]
           /\ lastCall' = [op |-> "respond", agent |-> key,
                           user_input |-> user_input,
                           context |-> context,
                           llm |-> llm,
                           branch |-> r.branch,
                           llm_invoked |-> r.llm_invoked,
                           response |-> r.response]
    /\ UNCHANGED <<active_chains, lesson_flow_managers, requests, curriculum_ingestion>>

\* AgentMemorySystem.clear_memory of a created agent: the conversation memory
\* is emptied and the profile is the default one again
ClearMemory(key) ==
    /\ key \in DOMAIN active_agents
    /\ active_agents' =
           [active_agents EXCEPT ![key] = NewAgent(active_agents[key].agent_type)]
    /\ lastCall' = [op |-> "clear_memory", agent |-> key]
    /\ UNCHANGED <<active_chains, lesson_flow_managers, requests, curriculum_ingestion>>

\* contexts of the respond calls: none, and a recent_conversation supplied
\* by the caller, of four JSON strings or of two messages
AgentContexts ==
    {c \in ChatContexts : c.current_lesson = Absent} \cup
    {[current_lesson |-> Absent,
      recent_conversation |->
          [type |-> "list",
           items |-> <<[has_content |-> TRUE, content |-> M_thanks],
                       [has_content |-> TRUE, content |-> G_great]>>]]}

\* inputs of the respond calls: a two-character one and two ordinary ones
AgentMessages == {M_hi, M_thanks, M_soul}

NextAgent ==
    \/ CreateAgent("seed", "s1")
    \/ \E k \in DOMAIN active_agents, m \in AgentMessages, c \in AgentContexts,
          g \in LlmOutcomes : Respond(k, m, c, g)
    \/ \E k \in DOMAIN active_agents : ClearMemory(k)

SpecAgent == Init /\ [][NextAgent]_vars

(***************************************************************************)
(* SpecFlow: LessonFlowManager objects used directly                       *)
(***************************************************************************)
\* lesson ids handed to the managers
FlowLessons == {"L1", "L2"}

\* manager.start_lesson(lesson_id, lesson_data) on the manager of the
\* student, made on first use; up to MaxStarts times per lesson
FlowStartLesson(student_id, lesson_id) ==
    LET managers == with_flow_manager(lesson_flow_managers, student_id)
    IN  /\ lesson_id \in DOMAIN managers[student_id].lessons
               => managers[student_id].lessons[lesson_id].attempts < MaxStarts
        /\ lesson_flow_managers' =
               [managers EXCEPT ![student_id] = start_lesson(@, lesson_id)]
        /\ lastCall' = [op |-> "start_lesson", student_id |-> student_id,
                        lesson_id |-> lesson_id]
        /\ UNCHANGED <<active_chains, active_agents, requests, curriculum_ingestion>>

\* manager.record_interaction(lesson_id, agent_type, query_path, user_input,
\* agent_response) with the default quality_score
FlowRecordInteraction(student_id, lesson_id, agent_type, query_path) ==
    /\ student_id \in DOMAIN lesson_flow_managers
    /\ IF record_interaction_KeyError(lesson_flow_managers[student_id], lesson_id, agent_type)
       THEN /\ lastCall' = [op |-> "record_interaction", student_id |-> student_id,
                            lesson_id |-> lesson_id, raised |-> "KeyError"]
            /\ UNCHANGED lesson_flow_managers
       ELSE /\ lesson_id \in DOMAIN lesson_flow_managers[student_id].lessons
                   => InteractionCount(lesson_flow_managers[student_id].lessons[lesson_id])
                          < MaxFlowInteractions
            /\ lesson_flow_managers' =
                   [lesson_flow_managers EXCEPT ![student_id] =
                        record_interaction(@, lesson_id, agent_type, query_path,
                                           "Test response", 10)]
            /\ lastCall' = [op |-> "record_interaction", student_id |-> student_id,
                            lesson_id |-> lesson_id, raised |-> None]
    /\ UNCHANGED <<active_chains, active_agents, requests, curriculum_ingestion>>

\* manager.complete_lesson(lesson_id, quiz_score)
FlowCompleteLesson(student_id, lesson_id, quiz_score) ==
    /\ student_id \in DOMAIN lesson_flow_managers
    /\ IF lesson_id \notin DOMAIN lesson_flow_managers[student_id].lessons
       THEN /\ lastCall' = [op |-> "complete_lesson", student_id |-> student_id,
                            lesson_id |-> lesson_id,
                            result |-> [error |-> "Lesson not found"]]
            /\ UNCHANGED lesson_flow_managers
       ELSE /\ quiz_score # <<>>
                   => Len(lesson_flow_managers[student_id].lessons[lesson_id].quiz_scores)
                          < MaxFlowQuizScores
            /\ \E after \in {complete_lesson(lesson_flow_managers[student_id],
                                             lesson_id, quiz_score)} :
                   /\ lesson_flow_managers' =
                          [lesson_flow_managers EXCEPT ![student_id] = after]
                   /\ lastCall' = [op |-> "complete_lesson", student_id |-> student_id,
                                   lesson_id |-> lesson_id,
                                   result |->
                                       [lesson_id |-> lesson_id,
                                        final_state |-> after.lessons[lesson_id].state,
                                        quiz_score |-> quiz_score]]
    /\ UNCHANGED <<active_chains, active_agents, requests, curriculum_ingestion>>

\* the first student uses every call on both lessons, a second one starts
\* and completes the first lesson
NextFlow ==
    \/ \E l \in FlowLessons : FlowStartLesson("s1", l)
    \/ \E l \in FlowLessons, a \in {"seed", "quiz"} :
           FlowRecordInteraction("s1", l, a, "practical")
    \/ \E l \in FlowLessons, q \in {<<>>, <<10>>} : FlowCompleteLesson("s1", l, q)
    \/ FlowStartLesson("s2", "L1")
    \/ \E l \in FlowLessons : FlowCompleteLesson("s2", l, <<>>)

SpecFlow == Init /\ [][NextFlow]_vars

(***************************************************************************)
(* Claims                                                                  *)
(***************************************************************************)
\* the last call was a completed suggest_agent_transition
Suggested ==
    /\ lastCall.op = "suggest_agent_transition"
    /\ lastCall.outcome = "ok"

\* the context suggest_agent_transition worked on in the last call
SuggestedContext ==
    active_chains[chain_key(lastCall.student_id, lastCall.lesson_id)]

\* the rules that start at persona a and clear their own threshold
ClearingRules(a, m, context) ==
    {i \in 1..Len(transition_rules) :
        /\ transition_rules[i].from_agent = a
        /\ total_confidence(transition_rules[i], m, context)
               >= transition_rules[i].confidence_threshold}

\* C2: suggest_agent_transition returns the target of the rule that has the
\* highest confidence among the rules of the current persona that clear their
\* own threshold, the first declared of them on a tie; when no rule clears its
\* threshold it returns should_transition = false, the current persona and
\* confidence 1.0
C2_HighestConfidenceWins ==
    Suggested =>
        LET a == lastCall.current_agent
            m == lastCall.user_input
            clearing == ClearingRules(a, m, SuggestedContext)
            conf(i) == total_confidence(transition_rules[i], m, SuggestedContext)
            r == lastCall.result
        IN  IF clearing = {}
            THEN /\ r.should_transition = FALSE
                 /\ r.recommended_agent = a
                 /\ r.confidence = Scale
            ELSE \E i \in clearing :
                    /\ \A j \in clearing : conf(j) <= conf(i)
                    /\ \A j \in clearing : conf(j) = conf(i) => i <= j
                    /\ r.should_transition = TRUE
                    /\ r.recommended_agent = transition_rules[i].to_agent
                    /\ r.confidence = conf(i)

\* C2 witness: a suggestion for which two rules clear their threshold with the
\* same confidence
C2_Witness ==
    /\ Suggested
    /\ \E i, j \in ClearingRules(lastCall.current_agent, lastCall.user_input,
                                 SuggestedContext) :
          /\ i < j
          /\ total_confidence(transition_rules[i], lastCall.user_input, SuggestedContext)
               = total_confidence(transition_rules[j], lastCall.user_input, SuggestedContext)
    /\ lastCall.result.should_transition

\* the last call was rule.should_transition
RuleEvaluated == lastCall.op = "rule.should_transition"

\* C3: for every rule, text and context, triggerScore = matched trigger
\* keywords / trigger keywords lies in [0,1] and confidence =
\* 0.7*triggerScore + 0.3*contextScore lies in [0,1], contextScore being 0.3
\* for >= 3 insights of the source persona plus 0.2 for an unresolved question
C3_ScoresBounded ==
    RuleEvaluated =>
        LET rule == transition_rules[lastCall.rule]
            c == lastCall.context
            trig == trigger_confidence(rule, lastCall.user_input)
            ins == IF rule.from_agent \in DOMAIN c.agent_insights
                   THEN Len(c.agent_insights[rule.from_agent]) ELSE 0
            ctx == (IF ins >= 3 THEN Tenths(3) ELSE 0)
                   + (IF Len(c.unresolved_questions) > 0 THEN Tenths(2) ELSE 0)
        IN  /\ trig * Len(rule.triggers)
                 = Scale * Cardinality({k \in Keywords :
                       /\ \E i \in 1..Len(rule.triggers) : rule.triggers[i] = k
                       /\ Contains(Lower(lastCall.user_input), k)})
            /\ 0 <= trig /\ trig <= Scale
            /\ 10 * lastCall.result.confidence = 7 * trig + 3 * ctx
            /\ 0 <= lastCall.result.confidence
            /\ lastCall.result.confidence <= Scale

\* C3 witness: a rule evaluated on a text that holds all its triggers, in a
\* context with three insights of the source persona and an unresolved question
C3_Witness ==
    /\ RuleEvaluated
    /\ trigger_confidence(transition_rules[lastCall.rule], lastCall.user_input) = Scale
    /\ transition_rules[lastCall.rule].from_agent \in DOMAIN lastCall.context.agent_insights
    /\ Len(lastCall.context.agent_insights[transition_rules[lastCall.rule].from_agent]) >= 3
    /\ lastCall.context.unresolved_questions # <<>>
    /\ lastCall.result.confidence = Tenths(7) + (3 * Tenths(5)) \div 10

\* the last call was route_to_best_agent
Routed == lastCall.op = "route_to_best_agent"

\* C4: cold-start routing always returns should_transition = true and one of
\* the three personas; with all three scores zero it returns seed with
\* confidence 0.5 and the default-routing reason, otherwise a persona with the
\* highest score and confidence min(score/6, 1) > 0
C4_ColdStartRouting ==
    Routed =>
        LET r == lastCall.result
            scores == r.context_data.keyword_scores
        IN  /\ r.should_transition = TRUE
            /\ r.recommended_agent \in Personas
            /\ IF \A p \in Personas : scores[p] = 0
               THEN /\ r.recommended_agent = "seed"
                    /\ r.confidence = Scale \div 2
                    /\ r.reason = "Default routing to seed agent for general guidance"
               ELSE /\ \A p \in Personas : scores[p] <= scores[r.recommended_agent]
                    /\ 6 * r.confidence
                         = (IF scores[r.recommended_agent] >= 6 THEN 6 * Scale
                            ELSE scores[r.recommended_agent] * Scale)
                    /\ r.confidence > 0
                    /\ r.reason # "Default routing to seed agent for general guidance"

\* C4 witness: a routed message whose best score is above 6, so that the clamp
\* of the confidence acts
C4_Witness ==
    /\ Routed
    /\ \E p \in Personas : lastCall.result.context_data.keyword_scores[p] > 6
    /\ lastCall.result.confidence = Scale

\* C4 second case reached as well: a message without any keyword
C4_DefaultReached ==
    /\ Routed
    /\ \A p \in Personas : lastCall.result.context_data.keyword_scores[p] = 0

\* C5: the table holds exactly six rules, one for every ordered pair of
\* distinct personas, and a suggestion with should_transition = true never
\* recommends the current persona
C5_CrossPersonaRules ==
    /\ Len(transition_rules) = 6
    /\ \A i \in 1..Len(transition_rules) :
          /\ transition_rules[i].from_agent \in Personas
          /\ transition_rules[i].to_agent \in Personas
          /\ transition_rules[i].from_agent # transition_rules[i].to_agent
    /\ \A a, b \in Personas :
          a # b => \E i \in 1..Len(transition_rules) :
                      /\ transition_rules[i].from_agent = a
                      /\ transition_rules[i].to_agent = b
                      /\ \A j \in 1..Len(transition_rules) :
                            (/\ transition_rules[j].from_agent = a
                             /\ transition_rules[j].to_agent = b) => j = i
    /\ (Suggested /\ lastCall.result.should_transition)
           => lastCall.result.recommended_agent # lastCall.current_agent

\* C5 witness: a suggestion that recommends a transition through the fifth
\* rule (seed -> sky)
C5_Witness ==
    /\ Suggested
    /\ lastCall.result.should_transition
    /\ lastCall.current_agent = "seed"
    /\ lastCall.result.recommended_agent = "sky"

\* C9: from seed, on a fresh context, "What does this mean for my soul?" makes
\* suggest_agent_transition return should_transition = true, sky, and a
\* confidence that reaches the threshold of the seed -> sky rule
C9_SoulQuestionGoesToSky ==
    (/\ Suggested
     /\ lastCall.current_agent = "seed"
     /\ lastCall.user_input = M_soul
     /\ SuggestedContext.conversation_history = <<>>)
        => /\ lastCall.result.should_transition = TRUE
           /\ lastCall.result.recommended_agent = "sky"
           /\ lastCall.result.confidence >= transition_rules[5].confidence_threshold

\* the persona recommended by the last suggestion from persona a on message m
Recommends(a, m, b) ==
    (/\ Suggested
     /\ lastCall.current_agent = a
     /\ lastCall.user_input = m) => lastCall.result.recommended_agent = b

\* C10: the suggestion follows the topical keywords of the message: seed with
\* a "Why is ... important?" question gives tree, tree with a question about
\* the soul or the spiritual journey gives sky, sky with a "How do I
\* practice / apply this daily?" question gives seed, and seed with a practice
\* question stays on seed
C10_TopicalSuggestions ==
    /\ Recommends("seed", M_why_practice, "tree")
    /\ Recommends("seed", M_why_sankalpa, "tree")
    /\ Recommends("tree", M_soul, "sky")
    /\ Recommends("tree", M_spiritual_journey, "sky")
    /\ Recommends("sky", M_practice_daily, "seed")
    /\ Recommends("sky", M_apply_daily, "seed")
    /\ Recommends("seed", M_sankalpa_daily, "seed")

(***************************************************************************)
(* Claims about the endpoints (Spec)                                       *)
(***************************************************************************)
\* a chat call that reached the agent and was answered
ChatAnswered == lastCall.op = "chat" /\ lastCall.status = 200

\* the lesson pointer _get_contextual_fallback puts after the fallback
LessonPointer(lesson_id) ==
    <<" Let's focus on our current lesson: '", LessonDict(lesson_id).title,
      "'. What specific aspect would you like to explore?">>

\* C1 as stated: whenever the text generator raises, the reply of respond() is
\* exactly the fixed fallback string of the persona
C1_ExactlyFixedFallback ==
    (ChatAnswered /\ lastCall.llm = "raise")
        => lastCall.response = _get_fallback_response(lastCall.agent_type)

\* C1, amended: with a text generator that raises, a chat call to a persona is
\* always answered, and the reply is the fixed fallback string of the persona,
\* except when the call is answered before the generator is invoked (trimmed
\* input shorter than 3 characters, or a repetitive recent conversation) and
\* the current lesson has a title: then it is that string followed by the
\* lesson pointer
C1_FallbackGuarantee ==
    /\ (lastCall.op = "chat" /\ lastCall.agent_type \in Personas)
           => lastCall.status = 200
    /\ (ChatAnswered /\ lastCall.llm = "raise")
           => lastCall.response =
                  IF /\ lastCall.branch = "short-circuit"
                     /\ lastCall.lesson_id # None
                     /\ LessonDict(lastCall.lesson_id).title # ""
                  THEN _get_fallback_response(lastCall.agent_type)
                           \o LessonPointer(lastCall.lesson_id)
                  ELSE _get_fallback_response(lastCall.agent_type)

\* the generator was invoked, raised, and the reply is the fixed fallback
C1_Witness ==
    /\ ChatAnswered
    /\ lastCall.llm = "raise"
    /\ lastCall.branch = "generator exception"
    /\ lastCall.response = _get_fallback_response(lastCall.agent_type)

\* len(conversation_history) of the context stored under a key, 0 without one
Turns(chains, key) ==
    IF key \in DOMAIN chains THEN Len(chains[key].conversation_history) ELSE 0

SuggestionAnswered == lastCall.op = "chain-suggestion" /\ lastCall.status = 200

\* C7: in the state a suggest_agent_transition call leaves, the first access
\* of the key included, the same call again returns the same decision
C7_SuggestIdempotent ==
    SuggestionAnswered
        => LET key == chain_key(lastCall.student_id, lastCall.lesson_id)
               again == get_or_create_chain(active_chains, lastCall.student_id,
                                            lastCall.lesson_id)
           IN  /\ again = active_chains
               /\ suggest_agent_transition(lastCall.current_agent,
                                           lastCall.user_input, again[key])
                      = lastCall.suggestion

\* a first access of a key that recommended a transition with its handoff
C7_Witness ==
    /\ SuggestionAnswered
    /\ lastCall.first_access
    /\ lastCall.suggestion.should_transition
    /\ lastCall.suggestion.recommended_agent # lastCall.current_agent

\* C8 as stated: a chain-suggestion call leaves the store of contexts as it
\* was, the set of stored contexts included
C8_StoreUnchanged ==
    [][lastCall'.op = "chain-suggestion" => active_chains' = active_chains]_vars

\* C8, amended: a chain-suggestion call leaves every stored context as it was;
\* the one thing it may add is a new context without turns, insights or
\* unresolved questions under the key of its own student and lesson
C8_SuggestOnlyCreates ==
    [][lastCall'.op = "chain-suggestion"
          => LET key == chain_key(lastCall'.student_id, lastCall'.lesson_id)
             IN  /\ \A k \in DOMAIN active_chains :
                        /\ k \in DOMAIN active_chains'
                        /\ active_chains'[k] = active_chains[k]
                 /\ DOMAIN active_chains' = DOMAIN active_chains \cup {key}
                 /\ key \notin DOMAIN active_chains
                        => active_chains'[key] =
                               AgentChainContext(lastCall'.student_id,
                                                 lastCall'.lesson_id,
                                                 active_chains'[key].chain_id)
      ]_vars

\* a chain-suggestion call on a context that holds a turn
C8_Witness ==
    /\ lastCall.op = "chain-suggestion"
    /\ Turns(active_chains, chain_key(lastCall.student_id, lastCall.lesson_id)) >= 1

(***************************************************************************)
(* Claims about cold-start routing, the fallback paths and the store       *)
(***************************************************************************)
\* the message contains one of the keywords
HasKeyword(keywords, m) == \E k \in keywords : KeywordIn(k, m)

\* the keyword lists of route_to_best_agent
PracticeKeywords ==
    {K_how, K_practice, K_do, K_steps, K_exercise, K_daily, K_routine, K_action,
     K_implement}

ConceptKeywords ==
    {K_why, K_meaning, K_understand, K_explain, K_concept, K_principle, K_learn,
     K_teach}

ReflectionKeywords ==
    {K_purpose, K_soul, K_spiritual, K_deeper, K_consciousness, K_meaning_of_life,
     K_reflect}

\* C11: at cold start a message that begins with "how" and holds no concept
\* or reflection keyword is routed to seed, a message that begins with "why"
\* and holds no practice or reflection keyword is routed to tree; "How do I
\* practice gratitude daily?" goes to seed and "Why is compassion important?"
\* to tree
C11_HowAndWhyRouting ==
    Routed =>
        LET m == lastCall.student_message
            agent == lastCall.result.recommended_agent
        IN  /\ (/\ StartsWith(Lower(m), K_how)
                /\ ~HasKeyword(ConceptKeywords \cup ReflectionKeywords, m))
                   => agent = "seed"
            /\ (/\ StartsWith(Lower(m), K_why)
                /\ ~HasKeyword(PracticeKeywords \cup ReflectionKeywords, m))
                   => agent = "tree"
            /\ m = M_gratitude => agent = "seed"
            /\ m = M_why_compassion => agent = "tree"

\* the second scenario has been routed, to tree
C11_Witness ==
    /\ Routed
    /\ lastCall.student_message = M_why_compassion
    /\ ~HasKeyword(PracticeKeywords \cup ReflectionKeywords, M_why_compassion)
    /\ lastCall.result.recommended_agent = "tree"

\* the agent of a chat call before the call: the stored one, or the one
\* create_agent makes
AgentBefore(agents, call) ==
    IF agent_key(call.agent_type, call.student_id) \in DOMAIN agents
    THEN agents[agent_key(call.agent_type, call.student_id)]
    ELSE NewAgent(LowerName(call.agent_type))

\* the fixed fallback of the persona, with the lesson pointer when the student
\* has a current lesson with a title
ContextualFallback(call) ==
    IF call.lesson_id # None /\ LessonDict(call.lesson_id).title # ""
    THEN _get_fallback_response(call.agent_type) \o LessonPointer(call.lesson_id)
    ELSE _get_fallback_response(call.agent_type)

\* C12: a chat call whose trimmed message has fewer than 3 characters is
\* answered with the fixed fallback of the persona, followed by the lesson
\* pointer when a lesson title is known; the generator is not called and the
\* memory of the agent stays as it was, whatever the generator would do
C12_ShortInputShortCircuits ==
    [][(/\ lastCall'.op = "chat"
        /\ lastCall'.status = 200
        /\ StrLen(Strip(lastCall'.message)) < 3)
          => /\ lastCall'.response = ContextualFallback(lastCall')
             /\ ~lastCall'.llm_invoked
             /\ active_agents'[agent_key(lastCall'.agent_type, lastCall'.student_id)]
                    = AgentBefore(active_agents, lastCall')
      ]_vars

\* "hi" sent during a lesson with a generator that works: the reply is the
\* fallback with the lesson pointer
C12_Witness ==
    /\ ChatAnswered
    /\ lastCall.message = M_hi
    /\ lastCall.llm # "raise"
    /\ G_great = lastCall.llm
    /\ lastCall.lesson_id # None
    /\ lastCall.response = _get_fallback_response(lastCall.agent_type)
                               \o LessonPointer(lastCall.lesson_id)

\* a reply that is the fixed fallback of the persona, with or without a
\* lesson pointer
IsFallback(call) ==
    \/ call.response = _get_fallback_response(call.agent_type)
    \/ /\ call.lesson_id # None
       /\ call.response = _get_fallback_response(call.agent_type)
                              \o LessonPointer(call.lesson_id)

\* generator output that fails validation: fewer than 10 characters, or
\* holding the input (letter case ignored) while shorter than twice the input
FailsValidation(output, user_input) ==
    \/ StrLen(Strip(output)) < 10
    \/ /\ Contains(Lower(Strip(output)), Lower(user_input))
       /\ StrLen(Strip(output)) < 2 * StrLen(user_input)

\* C13: an answered respond() call ends either in RETURN, with the trimmed
\* generator output as the reply and the exchange added to the memory of the
\* agent, or in FALLBACK, with a fallback reply and the memory as it was; a
\* generator that raises and an output that fails validation end in FALLBACK
C13_ReturnOrFallback ==
    [][(lastCall'.op = "chat" /\ lastCall'.status = 200)
          => LET call == lastCall'
                 before == AgentBefore(active_agents, call)
                 after == active_agents'[agent_key(call.agent_type, call.student_id)]
             IN  /\ call.branch = "return"
                        => /\ call.llm # "raise"
                           /\ call.response = Strip(call.llm)
                           /\ ~IsFallback(call)
                           /\ after = add_to_conversation(before, call.message,
                                                          call.response)
                 /\ call.branch # "return"
                        => /\ IsFallback(call)
                           /\ after = before
                 /\ (\/ call.llm = "raise"
                     \/ FailsValidation(call.llm, call.message))
                        => call.branch # "return"
      ]_vars

\* the generator was called and its output repeated the input: fallback
C13_Witness ==
    /\ ChatAnswered
    /\ lastCall.llm # "raise"
    /\ G_echo = lastCall.llm
    /\ lastCall.llm_invoked
    /\ FailsValidation(lastCall.llm, lastCall.message)
    /\ lastCall.branch = "invalid"

\* C14 as stated: a chat request whose agent_type is not seed, tree or sky
\* fails in create_agent: it is answered with an error, no agent is stored for
\* it and no context gains a turn
C14_UnknownPersonaFailsInCreation ==
    [][(lastCall'.op = "chat" /\ lastCall'.agent_type \notin Personas)
          => /\ lastCall'.status = 500
             /\ active_agents' = active_agents
             /\ \A k \in DOMAIN active_chains' :
                    Turns(active_chains', k) = Turns(active_chains, k)
      ]_vars

\* C15 as stated: the contexts of different (student, lesson) pairs are
\* independent.  Chat requests come from student s1 alone, so a summary for
\* student s1_L1 without lesson never shows a turn
C15_KeysIndependent ==
    (/\ lastCall.op = "chain-suggestion"
     /\ lastCall.status = 200
     /\ lastCall.student_id = "s1_L1"
     /\ lastCall.lesson_id = None)
        => lastCall.chain_summary.total_interactions = 0

\* C16: a call for a key without context creates one and never fails; no step
\* removes a context; a stored context keeps its chain_id and its history,
\* which only grows at the end; a context made by a call without turn is the
\* empty AgentChainContext; a call without lesson id uses the key of the
\* student
C16_ContextsPersist ==
    [][/\ \A k \in DOMAIN active_chains :
              /\ k \in DOMAIN active_chains'
              /\ active_chains'[k].chain_id = active_chains[k].chain_id
              /\ Len(active_chains'[k].conversation_history)
                     >= Len(active_chains[k].conversation_history)
              /\ SubSeq(active_chains'[k].conversation_history, 1,
                        Len(active_chains[k].conversation_history))
                     = active_chains[k].conversation_history
       /\ \A k \in DOMAIN active_chains' \ DOMAIN active_chains :
              /\ \A j \in DOMAIN active_chains :
                     active_chains[j].chain_id # active_chains'[k].chain_id
              /\ lastCall'.op \in {"chain-suggestion", "chain-summary"}
                     => active_chains'[k] =
                            AgentChainContext(lastCall'.student_id,
                                              lastCall'.lesson_id,
                                              active_chains'[k].chain_id)
       /\ lastCall'.op \in {"chain-suggestion", "chain-summary"}
              => /\ chain_key(lastCall'.student_id, lastCall'.lesson_id)
                        \in DOMAIN active_chains'
                 /\ lastCall'.lesson_id = None
                        => lastCall'.student_id \in DOMAIN active_chains'
      ]_vars

\* a summary asked without lesson id, for a context that holds turns and was
\* created earlier
C16_Witness ==
    /\ lastCall.op = "chain-summary"
    /\ lastCall.lesson_id = None
    /\ lastCall.student_id \in DOMAIN active_chains
    /\ lastCall.summary.total_interactions >= 1
    /\ lastCall.summary.chain_id = active_chains[lastCall.student_id].chain_id

(***************************************************************************)
(* Claims about chat requests that wait together (SpecLoop)                *)
(***************************************************************************)
\* C17 as stated: the transition suggestion in the answer to a chat request
\* is the one computed on the context that holds the turn of that request
C17_SuggestionAfterTurn ==
    ChatAnswered
        => lastCall.transition_suggestion
               = suggest_agent_transition(
                     lastCall.agent_type, lastCall.message,
                     active_chains[chain_key(lastCall.student_id,
                                             lastCall.lesson_id)])

\* the insights stored in a context, over all personas
RECURSIVE TotalInsights(_, _)
TotalInsights(context, agents) ==
    IF agents = {} THEN 0
    ELSE LET a == CHOOSE a \in agents : TRUE
         IN  Len(context.agent_insights[a]) + TotalInsights(context, agents \ {a})

\* C18: whatever chat requests of one student and lesson wait together, the
\* store holds at most one context for the key, created by the first request
\* run, and that context holds one turn and one insight for every request
\* run so far, in the order the requests were run
C18_NoLostUpdate ==
    /\ DOMAIN active_chains \subseteq {"s1"}
    /\ (Done = {}) = (active_chains = <<>>)
    /\ Done # {}
          => LET context == active_chains["s1"]
             IN  /\ context.chain_id = 1
                 /\ Len(context.conversation_history) = Cardinality(Done)
                 /\ TotalInsights(context, DOMAIN context.agent_insights)
                        = Cardinality(Done)
                 /\ \A i \in Done :
                        \E t \in 1..Len(context.conversation_history) :
                            /\ context.conversation_history[t].agent
                                   = requests[i].agent_type
                            /\ context.conversation_history[t].user_input
                                   = requests[i].message

\* two requests of the same persona waited together, the later one before
\* the earlier one was run, and both have been run
C18_Witness ==
    /\ Cardinality(Done) >= 2
    /\ \E i, j \in Done :
          /\ i < j
          /\ requests[j].waiting_at_accept >= 1
          /\ requests[i].agent_type = requests[j].agent_type
          /\ Len(active_chains["s1"].agent_insights[requests[i].agent_type]) >= 2

LessonStateOf(managers, lesson_id) ==
    IF "s1" \in DOMAIN managers /\ lesson_id \in DOMAIN managers["s1"].lessons
    THEN managers["s1"].lessons[lesson_id].state
    ELSE "not_started"

\* C20 as stated: a lesson becomes completed or mastered only from
\* in_progress (or from the other of the two), and a lesson that is completed
\* or mastered stays completed or mastered
C20_LessonStateMachine ==
    [][\A l \in Lessons :
          LET before == LessonStateOf(lesson_flow_managers, l)
              after == LessonStateOf(lesson_flow_managers', l)
          IN  /\ after \in {"completed", "mastered"}
                     => before \in {"in_progress", "completed", "mastered"}
              /\ before \in {"completed", "mastered"}
                     => after \in {"completed", "mastered"}
      ]_vars

(***************************************************************************)
(* Claims about the quiz endpoints (SpecQuiz)                              *)
(***************************************************************************)
\* the quiz interactions stored for a student and a lesson
StoredQuizInteractions(managers, student_id, lesson_id) ==
    IF student_id \in DOMAIN managers /\ lesson_id \in DOMAIN managers[student_id].lessons
    THEN quiz_interactions(managers[student_id].lessons[lesson_id])
    ELSE <<>>

\* the step answers a submission for a lesson the student had started and a
\* question the lesson has
SubmittedToStartedLesson ==
    /\ lastCall'.op = "submit_quiz"
    /\ lastCall'.student_id \in DOMAIN lesson_flow_managers
    /\ lastCall'.lesson_id \in DOMAIN lesson_flow_managers[lastCall'.student_id].lessons
    /\ lastCall'.lesson_id \in DOMAIN curriculum_ingestion.lessons
    /\ QuestionIndex(curriculum_ingestion.lessons[lastCall'.lesson_id].quiz,
                     lastCall'.quiz_id) # 0

\* C21 as stated: a submission for an existing question of a lesson the
\* student has started succeeds and stores one more quiz interaction, with the
\* score of the response, which the quiz progress then lists
C21_SubmissionRecorded ==
    [][SubmittedToStartedLesson =>
          /\ lastCall'.status = 200
          /\ LET before == StoredQuizInteractions(lesson_flow_managers,
                                lastCall'.student_id, lastCall'.lesson_id)
                 after == StoredQuizInteractions(lesson_flow_managers',
                                lastCall'.student_id, lastCall'.lesson_id)
             IN  /\ Len(after) = Len(before) + 1
                 /\ after[Len(after)].quality_score = lastCall'.score
      ]_vars

(***************************************************************************)
(* Claims about loading the curriculum (SpecIngest)                        *)
(***************************************************************************)
\* load_all_lessons has run on a new CurriculumIngestion whose directory
\* holds the valid lesson, the schema-invalid lesson and the malformed file
LoadedResilienceFiles ==
    /\ lastCall.op = "load_all_lessons"
    /\ lastCall.lessons_before = {}
    /\ {lastCall.json_files[i] : i \in DOMAIN lastCall.json_files}
           = {"valid_lesson.json", "invalid_lesson.json", "corrupted_lesson.json"}

\* C22 as stated: with one valid lesson, one schema-invalid lesson and one
\* malformed file, load_all_lessons completes and has loaded exactly the valid
\* lesson
C22_LoadingResilient ==
    LoadedResilienceFiles =>
        /\ lastCall.raised = ""
        /\ DOMAIN curriculum_ingestion.lessons = {"test_valid_001"}

(***************************************************************************)
(* Claims about the agent suggestion of a lesson (SpecSuggest)             *)
(***************************************************************************)
\* five suggestion requests in a row with "Tell me about wisdom" have been
\* answered inside an active lesson, the first with current_agent seed and
\* each later one with the agent suggested before it
FiveWisdomSuggestions ==
    /\ lastCall.op = "suggest"
    /\ lastCall.current_lesson # None
    /\ Q_wisdom = lastCall.user_input
    /\ Len(lastCall.run) >= 5

\* C23 as stated: the five suggestions name at least two different agents
C23_SuggestionsDiverse ==
    FiveWisdomSuggestions =>
        Cardinality({lastCall.run[i] : i \in 1..5}) >= 2

\* every suggestion is one of seed, tree and sky, whatever the query
SuggestionIsPersona ==
    lastCall.op = "suggest" => lastCall.suggested_agent \in Personas

(***************************************************************************)
(* Claims about the message-only transition check (SpecRule)               *)
(***************************************************************************)
\* the keyword-match count of a persona: the keywords of its list that the
\* lower-cased message holds
MatchCount(persona, m) ==
    LET listed == CASE persona = "seed" ->
                           {K_how, K_practice, K_do, K_steps, K_exercise, K_daily, K_routine}
                    [] persona = "tree" ->
                           {K_why, K_meaning, K_understand, K_explain, K_concept, K_principle}
                    [] persona = "sky" ->
                           {K_purpose, K_soul, K_spiritual, K_deeper, K_consciousness,
                            K_meaning_of_life}
    IN  Cardinality({k \in listed : KeywordIn(k, m)})

\* the last call was AgentChainManager.should_transition
TransitionChecked == lastCall.op = "should_transition"

\* C24: the recommended persona has the highest keyword-match count;
\* should_transition is true exactly when that count is above 0 and the
\* persona differs from the current one, so a signalled transition never
\* recommends the current persona; the confidence is min(count/3, 1)
C24_MessageOnlyTransition ==
    TransitionChecked =>
        LET r == lastCall.result
            m == lastCall.student_message
            best == r.recommended_agent
        IN  /\ best \in Personas
            /\ \A p \in Personas : MatchCount(p, m) <= MatchCount(best, m)
            /\ r.should_transition
                   <=> (MatchCount(best, m) > 0 /\ best # lastCall.current_agent)
            /\ r.should_transition => r.recommended_agent # lastCall.current_agent
            /\ 3 * r.confidence = Min(MatchCount(best, m), 3) * Scale

\* the check refuses a message whose best match is the current persona, and
\* signals the same message for another current persona
C24_Witness ==
    /\ TransitionChecked
    /\ lastCall.current_agent = "tree"
    /\ lastCall.result.should_transition
    /\ lastCall.result.recommended_agent = "sky"
    /\ lastCall.result.confidence = (2 * Scale) \div 3
    /\ ~should_transition("sky", lastCall.student_message, "Test response",
                          <<>>).should_transition

(***************************************************************************)
(* Claims about the handoff payload and the surfaced history (SpecHistory) *)
(***************************************************************************)
\* the lookup table of recommended approaches, keyed by (from, to)
ApproachTable ==
    {<<"seed", "tree", "Build on practical experience to explore underlying principles">>,
     <<"tree", "sky", "Deepen conceptual understanding into spiritual insight">>,
     <<"sky", "seed", "Ground spiritual insights in practical application">>,
     <<"tree", "seed", "Transform understanding into actionable practice">>,
     <<"seed", "sky", "Reflect on the deeper meaning of practical experience">>,
     <<"sky", "tree", "Clarify insights through conceptual frameworks">>}

\* seq holds the last n elements of whole, in their order (all of them when
\* whole has fewer than n)
IsLastOf(seq, whole, n) ==
    LET k == IF Len(whole) < n THEN Len(whole) ELSE n
    IN  /\ Len(seq) = k
        /\ \A i \in 1..k : seq[i] = whole[Len(whole) - k + i]

\* suggest_agent_transition has answered for a known persona
TransitionSuggested ==
    /\ lastCall.op = "suggest_agent_transition"
    /\ lastCall.outcome = "ok"

\* C25: the answer of suggest_agent_transition has a handoff payload exactly
\* when should_transition is true; the payload holds the insights of the
\* from-persona, the mood and the engagement of the context, its last 3 turns
\* in order, its unresolved questions and the table entry of the (from, to)
\* pair; every rule of the rule table has a table entry
C25_HandoffPayload ==
    /\ \A i \in 1..Len(transition_rules) :
           \E e \in ApproachTable :
               /\ e[1] = transition_rules[i].from_agent
               /\ e[2] = transition_rules[i].to_agent
               /\ _get_transition_approach(e[1], e[2]) = e[3]
    /\ TransitionSuggested =>
           LET r == lastCall.result
               context == active_chains[chain_key(lastCall.student_id, lastCall.lesson_id)]
               from == lastCall.current_agent
           IN  /\ ("transition_context" \in DOMAIN r) <=> r.should_transition
               /\ r.should_transition =>
                      LET t == r.transition_context
                      IN  /\ t.previous_agent_insights =
                                 IF from \in DOMAIN context.agent_insights
                                 THEN context.agent_insights[from] ELSE <<>>
                          /\ t.student_state.emotional_state = context.emotional_state
                          /\ t.student_state.engagement = context.engagement_level
                          /\ IsLastOf(t.conversation_context,
                                      context.conversation_history, 3)
                          /\ t.unresolved_questions = context.unresolved_questions
                          /\ <<from, r.recommended_agent, t.recommended_approach>>
                                 \in ApproachTable
                          /\ t.recommended_approach
                                 # "Smooth transition between perspectives"

\* a transition is suggested on a history of more than 3 turns, away from a
\* persona that has insights
C25_Witness ==
    /\ TransitionSuggested
    /\ lastCall.result.should_transition
    /\ Len(active_chains["s1"].conversation_history) >= 4
    /\ Len(lastCall.result.transition_context.previous_agent_insights) >= 1
    /\ active_chains["s1"].conversation_history[1].agent
           # active_chains["s1"].conversation_history[Len(active_chains["s1"].conversation_history)].agent

\* get_context_for_agent has answered
ContextRead == lastCall.op = "get_context_for_agent"

\* C26: the conversation_history that get_context_for_agent returns is the
\* last 5 turns of the context in their order (all turns when there are
\* fewer), its other_agent_insights leave out the requesting persona and
\* nothing else, and the context keeps every recorded turn, which the chain
\* summary counts
C26_RecentTurnsSurfaced ==
    /\ [](ContextRead =>
           LET r == lastCall.result
               context == active_chains[chain_key(lastCall.student_id, lastCall.lesson_id)]
           IN  /\ Len(r.conversation_history) <= 5
               /\ IsLastOf(r.conversation_history, context.conversation_history, 5)
               /\ lastCall.agent_type \notin DOMAIN r.other_agent_insights
               /\ \A k \in DOMAIN context.agent_insights \ {lastCall.agent_type} :
                      /\ k \in DOMAIN r.other_agent_insights
                      /\ r.other_agent_insights[k] = context.agent_insights[k])
    /\ [][lastCall'.op = "record_agent_interaction" =>
              /\ "s1" \in DOMAIN active_chains =>
                     /\ Len(active_chains'["s1"].conversation_history)
                            = Len(active_chains["s1"].conversation_history) + 1
                     /\ \A i \in 1..Len(active_chains["s1"].conversation_history) :
                            active_chains'["s1"].conversation_history[i]
                                = active_chains["s1"].conversation_history[i]
         ]_vars
    /\ [](lastCall.op = "get_chain_summary" =>
              lastCall.result.total_interactions
                  = Len(active_chains["s1"].conversation_history))

\* the context of a persona is read when the history has more than 5 turns
\* and both personas have insights
C26_Witness ==
    /\ ContextRead
    /\ lastCall.agent_type = "seed"
    /\ Len(active_chains["s1"].conversation_history) >= 6
    /\ Len(lastCall.result.conversation_history) = 5
    /\ DOMAIN active_chains["s1"].agent_insights = {"seed", "tree"}
    /\ DOMAIN lastCall.result.other_agent_insights = {"tree"}

(***************************************************************************)
(* Claims about what the quiz endpoints return (SpecQuiz)                  *)
(***************************************************************************)
\* C27 as stated: no question returned by get_quiz_questions, and no
\* next_question returned by submit_quiz_answer, has the correct_answer field
C27_CorrectAnswerHidden ==
    /\ (lastCall.op = "quiz_questions" /\ lastCall.status = 200) =>
           \A i \in 1..Len(lastCall.questions) :
               "correct_answer" \notin DOMAIN lastCall.questions[i]
    /\ (lastCall.op = "submit_quiz" /\ lastCall.status = 200) =>
           "correct_answer" \notin DOMAIN lastCall.next_question

\* the part of C27 about get_quiz_questions alone
QuestionListHidesAnswers ==
    (lastCall.op = "quiz_questions" /\ lastCall.status = 200) =>
        /\ Len(lastCall.questions) = Len(curriculum_ingestion.lessons[lastCall.lesson_id].quiz)
        /\ \A i \in 1..Len(lastCall.questions) :
               "correct_answer" \notin DOMAIN lastCall.questions[i]

\* C28: no stored context has an unresolved question; so for every rule and
\* every stored context the context score is 0 or 0.3, and no rule evaluation
\* and no suggested transition has a confidence above 0.79
C28_NoUnresolvedQuestions ==
    /\ \A k \in DOMAIN active_chains :
           /\ active_chains[k].unresolved_questions = <<>>
           /\ \A i \in 1..Len(transition_rules) :
                  /\ context_score(transition_rules[i], active_chains[k])
                         \in {0, Tenths(3)}
                  /\ \A m \in {M_dense_all, M_soul} :
                         100 * rule_should_transition(transition_rules[i], m,
                                   active_chains[k]).confidence <= 79 * Scale
    /\ (TransitionSuggested /\ lastCall.result.should_transition) =>
           100 * lastCall.result.confidence <= 79 * Scale

\* a transition is suggested with confidence 0.79: every trigger of the rule
\* matched and the from-persona has 3 insights
C28_Witness ==
    /\ TransitionSuggested
    /\ lastCall.result.should_transition
    /\ 100 * lastCall.result.confidence = 79 * Scale
    /\ Len(active_chains["s1"].conversation_history) >= 3
    /\ active_chains["s1"].unresolved_questions = <<>>

\* the last four remembered messages of the agent hold at most two distinct
\* contents
Latched(agent) ==
    /\ Len(agent.conversation_memory) >= 4
    /\ Cardinality({LastN(agent.conversation_memory, 4)[i].content : i \in 1..4}) <= 2

\* the texts respond returns without the generator's text
FallbackTexts(persona) ==
    {_get_fallback_response(persona),
     _get_contextual_fallback(persona, LessonDict("L1"))}

\* C29: once the last four remembered messages of an agent hold at most two
\* distinct contents, a respond() call that does not bring its own
\* recent_conversation returns a fallback text, does not invoke the
\* generator and leaves the memory as it is; the agent stays in that
\* condition until clear_memory or a call that brings its own
\* recent_conversation
C29_RepetitionLatch ==
    /\ [][\A k \in DOMAIN active_agents :
            (/\ Latched(active_agents[k])
             /\ lastCall'.op = "respond"
             /\ lastCall'.agent = k
             /\ lastCall'.context.recent_conversation = Absent)
            => /\ lastCall'.llm_invoked = FALSE
               /\ lastCall'.response \in FallbackTexts(active_agents[k].agent_type)
               /\ active_agents'[k] = active_agents[k]]_vars
    /\ [][\A k \in DOMAIN active_agents :
            (/\ Latched(active_agents[k])
             /\ lastCall'.op # "clear_memory"
             /\ lastCall'.op = "respond"
                    => lastCall'.context.recent_conversation = Absent)
            => Latched(active_agents'[k])]_vars

\* a latched agent was asked an ordinary question, with a generator that
\* would have answered well, and returned its fallback
C29_Witness ==
    /\ lastCall.op = "respond"
    /\ Latched(active_agents[lastCall.agent])
    /\ lastCall.user_input = M_soul
    /\ lastCall.llm # "raise"
    /\ G_great = lastCall.llm
    /\ lastCall.context.recent_conversation = Absent
    /\ lastCall.branch = "short-circuit"

\* current_lesson of the progress is None or names a lesson of the progress
\* that is in_progress
CurrentLessonInProgress(progress) ==
    \/ progress.current_lesson = None
    \/ /\ progress.current_lesson \in DOMAIN progress.lessons
       /\ progress.lessons[progress.current_lesson].state = "in_progress"

\* the step is a complete_lesson call of the student for the lesson
CompletesLesson(s, l) ==
    /\ lastCall'.op = "complete_lesson"
    /\ lastCall'.student_id = s
    /\ lastCall'.lesson_id = l

\* C30: for every student current_lesson is None or a lesson of the progress
\* in state in_progress; a complete_lesson call changes current_lesson only
\* by clearing the lesson it completes, and it does clear that one; on a
\* lesson that is not in the progress it returns the error result and
\* changes nothing
C30_CurrentLessonInProgress ==
    /\ [](\A s \in DOMAIN lesson_flow_managers :
              CurrentLessonInProgress(lesson_flow_managers[s]))
    /\ [][\A s \in DOMAIN lesson_flow_managers, l \in FlowLessons :
            CompletesLesson(s, l)
            => IF l \in DOMAIN lesson_flow_managers[s].lessons
               THEN /\ "error" \notin DOMAIN lastCall'.result
                    /\ lesson_flow_managers'[s].current_lesson =
                           IF lesson_flow_managers[s].current_lesson = l THEN None
                           ELSE lesson_flow_managers[s].current_lesson
               ELSE /\ lastCall'.result = [error |-> "Lesson not found"]
                    /\ lesson_flow_managers' = lesson_flow_managers]_vars

\* two lessons were started and the earlier one was completed: the later
\* one is still the current lesson
C30_Witness ==
    /\ lastCall.op = "complete_lesson"
    /\ lastCall.student_id = "s1"
    /\ lastCall.lesson_id = "L1"
    /\ "error" \notin DOMAIN lastCall.result
    /\ lesson_flow_managers["s1"].current_lesson = "L2"
    /\ lesson_flow_managers["s1"].lessons["L1"].state = "completed"
====
